---- MODULE Spec2Model ----
\* Model of the per-node Hysteria2 service of XrayRP: the in-memory
\* user / traffic / online-IP state with its callbacks (Authenticate,
\* TCPRequest/UDPRequest, Disconnect, LogTraffic), the userMonitor report
\* cycle, and the node lifecycle (Start, nodeMonitor, certMonitor,
\* reloadNode, Close).
EXTENDS Integers, Sequences, FiniteSets, TLC

\* ---------------------------------------------------------------- bounds

\* Upper bound on the bytes handed to LogTraffic, all callbacks together.
MaxBytes == 3
\* submap objects the limiter makes for one user
MaxMaps == 2
\* parts of a ports expression
MaxParts == 2
\* rules other parties add to the NAT table
MaxForeign == 2
\* the consecutive speed limits tried, from 0
MaxRate == 9
\* pushIP goroutines that have not run yet
MaxPushes == 1
\* rate.Limiter objects one user's GetUserBucket calls may create
MaxBuckets == 3

\* ---------------------------------------------------------------- inputs

\* Auth strings the embedded server may present ("" is the empty auth).
Keys == {"a", "b"}

\* Remote hosts.
IPs == {"ip1", "ip2", "ip3"}

\* (tx, rx) pairs of a single traffic callback.
TxRx == {<<1, 0>>, <<0, 1>>}

NoNode == [NodeType |-> "nil"]

\* api.NodeInfo values the panel may return. PortHopPorts is the ports
\* expression, already split into its <<start, end>> segments.
NodeA == [NodeType |-> "Hysteria2", NodeID |-> 1, Port |-> 5, SpeedLimit |-> 0,
          EnableTLS |-> TRUE, HasHy2 |-> TRUE,
          PortHopEnabled |-> TRUE, PortHopPorts |-> <<<<4, 6>>>>]
NodeB == [NodeType |-> "Hysteria2", NodeID |-> 1, Port |-> 7, SpeedLimit |-> 0,
          EnableTLS |-> TRUE, HasHy2 |-> TRUE,
          PortHopEnabled |-> TRUE, PortHopPorts |-> <<<<8, 8>>>>]
NodeWrongType == [NodeA EXCEPT !.NodeType = "Tuic"]
NodeNoPort == [NodeA EXCEPT !.Port = 0]
NodeInfos == {NodeA, NodeB, NodeWrongType, NodeNoPort}
\* an AnyTLS node, without and with a node speed limit
NodeT == [NodeA EXCEPT !.NodeType = "AnyTLS", !.HasHy2 = FALSE, !.PortHopEnabled = FALSE]
NodeTS == [NodeT EXCEPT !.SpeedLimit = 2]
\* NodeA with a node speed limit
NodeS == [NodeA EXCEPT !.SpeedLimit = 2]

\* api.UserInfo values.
UserA1 == [UID |-> 1, Email |-> "u1", UUID |-> "a", Passwd |-> "",
           DeviceLimit |-> 1, SpeedLimit |-> 0]
UserA2 == [UserA1 EXCEPT !.DeviceLimit = 2]
UserA0 == [UserA1 EXCEPT !.DeviceLimit = 0]
UserB == [UID |-> 2, Email |-> "u2", UUID |-> "b", Passwd |-> "b",
          DeviceLimit |-> 0, SpeedLimit |-> 0]
\* user 1 with a speed limit
UserS == [UserA0 EXCEPT !.SpeedLimit = 3]

\* user 1 with UUID "a" and Passwd "b", user 2 whose UUID is that Passwd
UserAB == [UserA0 EXCEPT !.Passwd = "b", !.SpeedLimit = 3]
UserX == [UserB EXCEPT !.Passwd = "", !.SpeedLimit = 2]
\* user 2 of a panel that uses the password field, its password being "a"
UserP == [UserX EXCEPT !.UUID = "", !.Passwd = "a"]

\* ---------------------------------------------------------------- state

VARIABLES
    \* controller.Config
    config,
    \* whether UpdatePeriodic seconds have passed since startAt
    elapsed,
    \* Hysteria2Service fields
    nodeInfo, server, tasks, portHopRules, reloadMu,
    users, traffic, onlineIPs, ipLastActive, blockedIDs, rateLimiters,
    \* rate.Limiter objects: id -> [limit, burst]
    limiters,
    \* rule.Manager: the destinations the tag's rules match, and the
    \* accumulated detect results
    rules, detectResults,
    \* the NAT PREROUTING chain
    natTable,
    \* embedded server: connections admitted and not yet disconnected,
    \* connections the core was told to close, and the event-logger request
    \* in flight
    conns, closing, req,
    \* AnyTLS: the connCounter wrappers RoutedConnection returned, not yet closed
    sessions,
    \* the service tag Start computed
    serviceTag,
    \* the limiter package's state for one inbound tag and one user
    lim,
    \* the controller's outbound manager and the outcome of the latest Dispatch
    dp,
    \* the latest buildPortHopRules call: its arguments and result
    ph,
    \* the host's firewall: whether an iptables command succeeds now, and the
    \* rules other parties put into the NAT table
    fw,
    \* the latest determineRate call: its arguments and the result of each copy
    dr,
    \* the Limiter of the controller, a reference Limiter and the latest results
    lt,
    \* the NodeInfo the panel returned last (TUIC)
    polled,
    \* one user's entries in one InboundInfo, the buckets made for the user
    \* and the bucket each link is wrapped with
    shared,
    \* the latest globalLimit call: its arguments, the cache's answer, the result
    gl,
    \* the link of the latest Dispatch that reached the audit and limiter checks
    link,
    \* whether a reloadNode call has started an embedded server
    reloaded,
    \* the holder of the service mutex h.mu, and the LogTraffic call each
    \* thread of the core is in
    mu, tl,
    \* the list of the latest direct syncUsers call; n counts the calls modulo 2
    synced,
    \* the goroutines: userMonitor, nodeMonitor / certMonitor, Close
    um, pc, arg, closePc,
    \* panel side: bytes delivered by successful ReportUserTraffic calls
    reported,
    \* bookkeeping of the calls made: bytes handed to LogTraffic, bytes
    \* LogTraffic added to a counter, audit
    \* history per connection id and per connection, keys whose snapshot a
    \* failed report restored, failed rebuild
    observed, counted, phase, offending, owed, reloadFailed

svcVars == <<users, traffic, onlineIPs, ipLastActive, blockedIDs, rateLimiters, limiters>>
ruleVars == <<rules, detectResults>>
nodeVars == <<nodeInfo, server, tasks, portHopRules, reloadMu, natTable>>
connVars == <<conns, closing, req>>
procVars == <<pc, arg, closePc>>
histVars == <<observed, counted, phase, offending, owed, reloadFailed>>
extVars == <<dp, ph, fw, dr, lt, polled>>
hubVars == <<shared, gl, link, reloaded, mu, tl, synced>>

vars == <<config, hubVars, elapsed, sessions, lim, extVars, serviceTag, svcVars, ruleVars, nodeVars, connVars, um, procVars,
          reported, histVars>>

\* ---------------------------------------------------------------- helpers

EmptyMap == [x \in {} |-> 0]
Put(f, k, v) == [x \in (DOMAIN f) \cup {k} |-> IF x = k THEN v ELSE f[x]]
Del(f, k) == [x \in (DOMAIN f) \ {k} |-> f[x]]
Restrict(f, S) == [x \in (DOMAIN f) \cap S |-> f[x]]

ZeroTraffic == [Upload |-> 0, Download |-> 0]
AddTraffic(t, up, down) == [Upload |-> t.Upload + up, Download |-> t.Download + down]
ZeroAll == [k \in Keys |-> ZeroTraffic]
HeldOf(t, k) == IF k \in DOMAIN t THEN t[k] ELSE ZeroTraffic

determineRate_Max(nodeLimit, userLimit) ==
    IF nodeLimit > userLimit THEN nodeLimit ELSE userLimit

\* determineRate of package hysteria2
determineRate(nodeLimit, userLimit) ==
    IF nodeLimit = 0 \/ userLimit = 0
    THEN IF nodeLimit > userLimit THEN nodeLimit
         ELSE IF nodeLimit < userLimit THEN userLimit
         ELSE 0
    ELSE IF nodeLimit > userLimit THEN userLimit
         ELSE IF nodeLimit < userLimit THEN nodeLimit
         ELSE nodeLimit

\* fmt.Sprintf("%s_%s_%d_%d", NodeType, ListenIP, Port, NodeID), as the
\* tuple of the four values
TagOf(n) == <<n.NodeType, config.ListenIP, n.Port, n.NodeID>>

NoTag == <<>>

\* ---------------------------------------------------------------- syncUsers

NoReq == [pc |-> "none"]

NonEmptyKeys(u) == SelectSeq(<<u.UUID, u.Passwd>>, LAMBDA k : k # "")

FreshLimiter(objs) ==
    CHOOSE n \in 1..(Cardinality(DOMAIN objs) + 1) : n \notin DOMAIN objs

RECURSIVE PutKeys(_, _, _, _)
\* the loop over keys of syncUsers: newUsers keeps the first record of a
\* key, newRateLimiters the last limiter, traffic gets a zero counter
PutKeys(keys, rec, limiter, acc) ==
    IF keys = <<>> THEN acc
    ELSE LET k == Head(keys)
             a1 == [acc EXCEPT
                     !.users = IF k \in DOMAIN acc.users THEN @ ELSE Put(@, k, rec),
                     !.rl = IF limiter # 0 THEN Put(@, k, limiter) ELSE @,
                     !.traffic = IF k \in DOMAIN acc.traffic THEN @ ELSE Put(@, k, ZeroTraffic)]
         IN PutKeys(Tail(keys), rec, limiter, a1)

RECURSIVE SyncLoop(_, _, _)
\* the loop over the user list of syncUsers; limiter 0 is the nil limiter
SyncLoop(list, nodeLimit, acc) ==
    IF list = <<>> THEN acc
    ELSE LET u == Head(list)
             keys == NonEmptyKeys(u)
             rec == [UID |-> u.UID, Email |-> u.Email,
                     DeviceLimit |-> u.DeviceLimit, SpeedLimit |-> u.SpeedLimit]
             limit == determineRate(nodeLimit, u.SpeedLimit)
             old == SelectSeq(keys, LAMBDA k : k \in DOMAIN rateLimiters)
             limiter == IF limit = 0 THEN 0
                        ELSE IF old # <<>> THEN rateLimiters[old[1]]
                        ELSE FreshLimiter(acc.objs)
             objs == IF limit = 0 THEN acc.objs
                     ELSE Put(acc.objs, limiter, [limit |-> limit, burst |-> limit])
         IN SyncLoop(Tail(list), nodeLimit,
                     PutKeys(keys, rec, limiter, [acc EXCEPT !.objs = objs]))

SyncResult(list) ==
    SyncLoop(list,
             IF nodeInfo = NoNode THEN 0 ELSE nodeInfo.SpeedLimit,
             [users |-> EmptyMap, rl |-> EmptyMap, objs |-> limiters, traffic |-> traffic])

\* syncUsers(userInfo), atomic under mu, with nodeInfo as it is read
syncUsersWith(res) ==
    /\ users' = res.users
    /\ rateLimiters' = res.rl
    /\ limiters' = Restrict(res.objs, {res.rl[k] : k \in DOMAIN res.rl})
    /\ traffic' = res.traffic
    /\ onlineIPs' = Restrict(onlineIPs, DOMAIN res.users)
    /\ ipLastActive' = Restrict(ipLastActive, DOMAIN res.users)

syncUsers(list) == syncUsersWith(SyncResult(list))

\* a call of syncUsers(userInfo) on the started service
CallSyncUsers(list) ==
    /\ nodeInfo # NoNode
    /\ syncUsers(list)
    /\ synced' = [called |-> TRUE, list |-> list, n |-> 1 - synced.n]
    /\ UNCHANGED <<config, shared, gl, link, reloaded, mu, tl, elapsed, sessions, lim, extVars,
                   serviceTag, blockedIDs, ruleVars, nodeVars, connVars, um, procVars, reported,
                   histVars>>

\* ---------------------------------------------------------------- callbacks

Conn(ip, id) == [ip |-> ip, id |-> id]

\* Authenticate with the device limit compared by > instead of >=
AuthenticateOk_Gt(ip, auth) ==
    /\ auth # ""
    /\ auth \in DOMAIN users
    /\ LET ipSet == IF auth \in DOMAIN onlineIPs THEN onlineIPs[auth] ELSE {}
       IN ~(/\ ip \notin ipSet
            /\ users[auth].DeviceLimit > 0
            /\ Cardinality(ipSet) > users[auth].DeviceLimit)

\* the first result of Authenticate(addr, auth, tx) in the current state
AuthenticateOk(ip, auth) ==
    /\ auth # ""
    /\ auth \in DOMAIN users
    /\ LET ipSet == IF auth \in DOMAIN onlineIPs THEN onlineIPs[auth] ELSE {}
       IN ~(/\ ip \notin ipSet
            /\ users[auth].DeviceLimit > 0
            /\ Cardinality(ipSet) >= users[auth].DeviceLimit)

\* hyAuthenticator.Authenticate(addr, auth, tx); the core admits the
\* connection under the returned id when the result is true
Authenticate(ip, auth) ==
    /\ server = "running"
    /\ LET ipSet == IF auth \in DOMAIN onlineIPs THEN onlineIPs[auth] ELSE {}
           activeMap == IF auth \in DOMAIN ipLastActive THEN ipLastActive[auth] ELSE {}
       IN IF auth = "" \/ auth \notin DOMAIN users
          THEN UNCHANGED <<onlineIPs, ipLastActive, conns>>
          ELSE IF ~AuthenticateOk(ip, auth)
          THEN /\ onlineIPs' = Put(onlineIPs, auth, ipSet)
               /\ ipLastActive' = Put(ipLastActive, auth, activeMap)
               /\ UNCHANGED conns
          ELSE /\ onlineIPs' = Put(onlineIPs, auth, ipSet \cup {ip})
               /\ ipLastActive' = Put(ipLastActive, auth, activeMap \cup {ip})
               /\ conns' = conns \cup {Conn(ip, auth)}
    /\ UNCHANGED <<config, hubVars, elapsed, sessions, lim, extVars, serviceTag, users, traffic, blockedIDs, rateLimiters, limiters, ruleVars,
                   nodeVars, closing, req, um, procVars, reported, histVars>>

PhaseAfterLog(p) ==
    IF p = "flagged" THEN "consumed" ELSE IF p = "consumed" THEN "after" ELSE p

\* the result of LogTraffic(id, tx, rx) in the current state
LogTrafficOk(id) == id \notin blockedIDs

\* a blocked path of LogTraffic that leaves the flag set
ConsumeBlocked_Keep(id) == blockedIDs

\* delete(t.svc.blockedIDs, id) on the blocked path of LogTraffic
ConsumeBlocked(id) == blockedIDs \ {id}

LogTrafficCounts_Always(id) == TRUE

\* `if _, ok := t.svc.users[id]; !ok { return true }` of LogTraffic: whether
\* the bytes of the call are added to a counter
LogTrafficCounts(id) == id \in DOMAIN users

\* hyTrafficLogger.LogTraffic(id, tx, rx), called by the core for a live
\* connection; on false the core closes that connection
LogTraffic(c, tx, rx) ==
    /\ c \in conns
    /\ observed + tx + rx <= MaxBytes
    /\ observed' = observed + tx + rx
    /\ phase' = [phase EXCEPT ![c.id] = PhaseAfterLog(@)]
    /\ offending' = offending \ {c}
    /\ IF ~LogTrafficOk(c.id)
       THEN /\ blockedIDs' = ConsumeBlocked(c.id)
            /\ conns' = conns \ {c}
            /\ closing' = closing \cup {c}
            /\ UNCHANGED <<traffic, counted>>
       ELSE IF ~LogTrafficCounts(c.id)
       THEN UNCHANGED <<blockedIDs, traffic, counted, conns, closing>>
       ELSE /\ traffic' = Put(traffic, c.id, AddTraffic(HeldOf(traffic, c.id), tx, rx))
            /\ counted' = [counted EXCEPT ![c.id] = AddTraffic(@, tx, rx)]
            /\ UNCHANGED <<blockedIDs, conns, closing>>
    /\ UNCHANGED <<config, hubVars, elapsed, sessions, lim, extVars, serviceTag, users, onlineIPs, ipLastActive, rateLimiters, limiters, ruleVars,
                   nodeVars, req, um, procVars, reported, owed, reloadFailed>>

\* hyEventLogger.Disconnect(addr, id, err)
Disconnect(c) ==
    /\ c \in conns \cup closing
    /\ conns' = conns \ {c}
    /\ closing' = closing \ {c}
    /\ offending' = offending \ {c}
    /\ onlineIPs' = IF c.id \in DOMAIN onlineIPs
                    THEN IF onlineIPs[c.id] \ {c.ip} = {} THEN Del(onlineIPs, c.id)
                         ELSE Put(onlineIPs, c.id, onlineIPs[c.id] \ {c.ip})
                    ELSE onlineIPs
    /\ ipLastActive' = IF c.id \in DOMAIN ipLastActive
                       THEN IF ipLastActive[c.id] \ {c.ip} = {} THEN Del(ipLastActive, c.id)
                            ELSE Put(ipLastActive, c.id, ipLastActive[c.id] \ {c.ip})
                       ELSE ipLastActive
    /\ UNCHANGED <<config, hubVars, elapsed, sessions, lim, extVars, serviceTag, users, traffic, blockedIDs, rateLimiters, limiters, ruleVars,
                   nodeVars, req, um, procVars, reported,
                   observed, counted, phase, owed, reloadFailed>>

\* ---------------------------------------------------------------- audit

\* rule.Manager.Detect(tag, destination, userKey, srcIP): the first rule
\* whose pattern matches the destination, 0 when none matches
RECURSIVE FirstMatch(_, _)
FirstMatch(rs, dest) ==
    IF rs = <<>> THEN 0
    ELSE IF Head(rs).Pattern = dest THEN Head(rs).ID
    ELSE FirstMatch(Tail(rs), dest)

Detect(dest) == FirstMatch(rules, dest) # 0

\* TCPRequest / UDPRequest, first critical section: look the id up
EventRequest(c, dest) ==
    /\ c \in conns
    /\ req = NoReq
    /\ req' = [pc |-> "online", conn |-> c, dest |-> dest, ok |-> c.id \in DOMAIN users]
    /\ UNCHANGED <<config, hubVars, elapsed, sessions, lim, extVars, serviceTag, svcVars, ruleVars, nodeVars, conns, closing, um, procVars,
                   reported, histVars>>

TCPRequest(c, dest) == EventRequest(c, dest)

UDPRequest(c, dest) == EventRequest(c, dest)

\* TCPRequest / UDPRequest, second critical section: re-add the remote IP
RequestOnline ==
    /\ req.pc = "online"
    /\ req' = [req EXCEPT !.pc = "audit"]
    /\ LET id == req.conn.id
           host == req.conn.ip
       IN IF req.ok /\ host # "" /\ id # ""
          THEN /\ onlineIPs' = Put(onlineIPs, id,
                     (IF id \in DOMAIN onlineIPs THEN onlineIPs[id] ELSE {}) \cup {host})
               /\ ipLastActive' = Put(ipLastActive, id,
                     (IF id \in DOMAIN ipLastActive THEN ipLastActive[id] ELSE {}) \cup {host})
          ELSE UNCHANGED <<onlineIPs, ipLastActive>>
    /\ UNCHANGED <<config, hubVars, elapsed, sessions, lim, extVars, serviceTag, users, traffic, blockedIDs, rateLimiters, limiters, ruleVars,
                   nodeVars, conns, closing, um, procVars, reported, histVars>>

\* hyEventLogger.auditRequest(addr, id, reqAddr), the tail of the request
auditRequest ==
    /\ req.pc = "audit"
    /\ req' = NoReq
    /\ LET id == req.conn.id
           hit == id \in DOMAIN users /\ req.dest # "" /\ Detect(req.dest)
       IN IF hit
          THEN /\ detectResults' = detectResults \cup
                     {[UID |-> users[id].UID, RuleID |-> FirstMatch(rules, req.dest),
                       IP |-> req.conn.ip]}
               /\ blockedIDs' = blockedIDs \cup {id}
               /\ phase' = [phase EXCEPT ![id] = "flagged"]
               /\ offending' = IF req.conn \in conns THEN offending \cup {req.conn}
                               ELSE offending
          ELSE UNCHANGED <<detectResults, blockedIDs, phase, offending>>
    /\ UNCHANGED <<config, hubVars, elapsed, sessions, lim, extVars, serviceTag, users, traffic, onlineIPs, ipLastActive, rateLimiters, limiters,
                   rules, nodeVars, conns, closing, um, procVars, reported,
                   observed, counted, owed, reloadFailed>>

\* ---------------------------------------------------------------- port hopping

MaxPort == 65535

RECURSIVE buildPortHopRules_NoSplit(_, _)
buildPortHopRules_NoSplit(bp, segs) ==
    IF segs = <<>> THEN <<>>
    ELSE LET s0 == Head(segs)[1]
             e0 == Head(segs)[2]
             start == IF s0 > e0 THEN e0 ELSE s0
             end == IF s0 > e0 THEN s0 ELSE e0
             here == IF s0 < 1 \/ s0 > MaxPort \/ e0 < 1 \/ e0 > MaxPort THEN <<>>
                     ELSE <<[FromPortStart |-> start, FromPortEnd |-> end, ToPort |-> bp]>>
         IN here \o buildPortHopRules_NoSplit(bp, Tail(segs))

RECURSIVE buildPortHopRules(_, _)
\* buildPortHopRules(basePort, portsExpr), over the segments of the expression
buildPortHopRules(bp, segs) ==
    IF segs = <<>> THEN <<>>
    ELSE LET s0 == Head(segs)[1]
             e0 == Head(segs)[2]
             start == IF s0 > e0 THEN e0 ELSE s0
             end == IF s0 > e0 THEN s0 ELSE e0
             Rule(a, b) == [FromPortStart |-> a, FromPortEnd |-> b, ToPort |-> bp]
             here == IF s0 < 1 \/ s0 > MaxPort \/ e0 < 1 \/ e0 > MaxPort THEN <<>>
                     ELSE IF bp >= start /\ bp <= end
                     THEN (IF bp > start THEN <<Rule(start, bp - 1)>> ELSE <<>>)
                          \o (IF bp < end THEN <<Rule(bp + 1, end)>> ELSE <<>>)
                     ELSE <<Rule(start, end)>>
         IN here \o buildPortHopRules(bp, Tail(segs))

buildPortHopRulesFromNode(n) ==
    IF n = NoNode THEN <<>>
    ELSE IF ~n.HasHy2 THEN <<>>
    ELSE IF ~n.PortHopEnabled \/ n.PortHopPorts = <<>> THEN <<>>
    ELSE IF n.Port = 0 \/ n.Port > MaxPort THEN <<>>
    ELSE buildPortHopRules(n.Port, n.PortHopPorts)

\* iptables -t nat -A PREROUTING ... for every rule; a failing command is
\* logged and changes nothing
applyPortHopIptablesRules(table, rs) == IF fw.works THEN table \o rs ELSE table

RECURSIVE RemoveFirst(_, _)
RemoveFirst(table, r) ==
    IF table = <<>> THEN <<>>
    ELSE IF Head(table) = r THEN Tail(table)
    ELSE <<Head(table)>> \o RemoveFirst(Tail(table), r)

RECURSIVE deletePortHopIptablesRules(_, _)
\* iptables -t nat -D PREROUTING ... for every rule; a failing command is
\* logged and changes nothing
deletePortHopIptablesRules(table, rs) ==
    IF rs = <<>> \/ ~fw.works THEN table
    ELSE deletePortHopIptablesRules(RemoveFirst(table, Head(rs)), Tail(rs))

updatePortHopRulesLocked_Keep(n) == [portHopRules |-> portHopRules, natTable |-> natTable]

\* updatePortHopRulesLocked with h.nodeInfo = n: the tracked rules and the
\* NAT table afterwards
updatePortHopRulesLocked(n) ==
    LET cleared == IF Len(portHopRules) > 0
                   THEN deletePortHopIptablesRules(natTable, portHopRules)
                   ELSE natTable
        rs == buildPortHopRulesFromNode(n)
    IN IF Len(rs) = 0
       THEN [portHopRules |-> <<>>, natTable |-> cleared]
       ELSE [portHopRules |-> rs, natTable |-> applyPortHopIptablesRules(cleared, rs)]

\* ---------------------------------------------------------------- reporting

IdleUM == [pc |-> "idle", uts |-> EmptyMap, online |-> {}, snapshot |-> EmptyMap,
           base |-> ZeroAll]

\* the auth keys collectUsage snapshots: a user of the map, counter not zero
SnapshotKeys ==
    {k \in DOMAIN traffic :
        k \in DOMAIN users /\ ~(traffic[k].Upload = 0 /\ traffic[k].Download = 0)}

\* collectUsage(): the traffic report (one entry per snapshot key), the
\* online report and the snapshot
collectUsage ==
    [uts |-> [k \in SnapshotKeys |->
                 [UID |-> users[k].UID, Email |-> users[k].Email,
                  Upload |-> traffic[k].Upload, Download |-> traffic[k].Download]],
     online |-> UNION {{[UID |-> users[k].UID, IP |-> ip] : ip \in onlineIPs[k]} :
                          k \in (DOMAIN onlineIPs) \cap (DOMAIN users)},
     snapshot |-> [k \in SnapshotKeys |-> traffic[k]],
     traffic |-> [k \in DOMAIN traffic |->
                     IF k \in SnapshotKeys THEN ZeroTraffic ELSE traffic[k]]]

\* a restoreTraffic that drops the snapshot
restoreTraffic_Drop(snapshot) == traffic

\* restoreTraffic(snapshot): the counters afterwards
restoreTraffic(snapshot) ==
    [k \in (DOMAIN traffic) \cup (DOMAIN snapshot) |->
        IF k \in DOMAIN snapshot
        THEN AddTraffic(HeldOf(traffic, k), snapshot[k].Upload, snapshot[k].Download)
        ELSE traffic[k]]

\* time.Since(startAt) < UpdatePeriodic: the task returns at once
BootDelay == ~elapsed

FetchFailed_Never(answer) == FALSE

\* GetUserList returned an error other than api.UserNotModified
FetchFailed(answer) == answer \notin {"ok", "notModified"}

\* userMonitor, up to syncUsers: GetUserList answers "ok" with a list,
\* "notModified" or "error" (the cycle then returns)
UserMonitorFetch(answer, list) ==
    /\ tasks = "running"
    /\ um.pc = "idle"
    /\ IF BootDelay \/ FetchFailed(answer)
       THEN UNCHANGED <<um, users, rateLimiters, limiters, traffic, onlineIPs, ipLastActive>>
       ELSE IF answer = "notModified"
       THEN /\ um' = [um EXCEPT !.pc = "rules"]
            /\ UNCHANGED <<users, rateLimiters, limiters, traffic, onlineIPs, ipLastActive>>
       ELSE /\ um' = [um EXCEPT !.pc = "rules"]
            /\ syncUsers(list)
    /\ UNCHANGED <<config, hubVars, elapsed, sessions, lim, extVars, serviceTag, blockedIDs, ruleVars, nodeVars, connVars, procVars, reported, histVars>>

\* userMonitor, "Check Rule": GetNodeRule answers "ok" with a list,
\* "notModified" or "error"
UserMonitorRules(answer, list) ==
    /\ um.pc = "rules"
    /\ um' = [um EXCEPT !.pc = "collect"]
    /\ IF ~config.DisableGetRule /\ answer = "ok" /\ Len(list) > 0
       THEN rules' = list
       ELSE UNCHANGED rules
    /\ UNCHANGED <<config, hubVars, elapsed, sessions, lim, extVars, serviceTag, svcVars, detectResults, nodeVars, connVars, procVars, reported, histVars>>

\* userMonitor, collectUsage()
UserMonitorCollect ==
    /\ um.pc = "collect"
    /\ LET r == collectUsage
       IN /\ um' = [pc |-> "report", uts |-> r.uts, online |-> r.online,
                    snapshot |-> r.snapshot, base |-> counted]
          /\ traffic' = r.traffic
    /\ onlineIPs' = EmptyMap
    /\ ipLastActive' = EmptyMap
    /\ UNCHANGED <<config, hubVars, elapsed, sessions, lim, extVars, serviceTag, users, blockedIDs, rateLimiters, limiters, ruleVars, nodeVars,
                   connVars, procVars, reported, histVars>>

\* userMonitor calls ReportUserTraffic for a non-empty report, unless
\* uploading is disabled
ReportCalled == DOMAIN um.uts # {} /\ ~config.DisableUploadTraffic

\* userMonitor from ReportUserTraffic to its return; ok is the answer of
\* ReportUserTraffic when it is called
UserMonitorReport(ok) ==
    /\ um.pc = "report"
    /\ um' = IdleUM
    /\ detectResults' = {}
    /\ IF ReportCalled
       THEN IF ok
            THEN /\ reported' = [k \in Keys |->
                                   AddTraffic(reported[k], HeldOf(um.snapshot, k).Upload,
                                              HeldOf(um.snapshot, k).Download)]
                 /\ owed' = {}
                 /\ UNCHANGED traffic
            ELSE /\ traffic' = restoreTraffic(um.snapshot)
                 /\ owed' = owed \cup DOMAIN um.snapshot
                 /\ UNCHANGED reported
       ELSE /\ ok
            /\ UNCHANGED <<traffic, reported, owed>>
    /\ UNCHANGED <<config, hubVars, elapsed, sessions, lim, extVars, serviceTag, users, onlineIPs, ipLastActive, blockedIDs, rateLimiters, limiters,
                   rules, nodeVars, connVars, procVars,
                   observed, counted, phase, offending, reloadFailed>>

\* ---------------------------------------------------------------- Start

ValidNode(n) == n.NodeType = "Hysteria2" /\ n.Port # 0 /\ n.HasHy2

\* a reloadMu.Lock() that does not wait for the holder
CanLock_Always == TRUE

\* reloadMu.Lock() returns only when no one holds reloadMu
CanLock == reloadMu = "free"

\* Start(): GetNodeInfo answers n, GetUserList answers list, GetNodeRule
\* answers ruleAnswer; a Start that returns an error leaves no service
Start(n, list, ruleAnswer, ruleList) ==
    /\ nodeInfo = NoNode
    /\ ValidNode(n)
    /\ CanLock
    /\ nodeInfo' = n
    /\ syncUsersWith(SyncLoop(list, n.SpeedLimit,
           [users |-> EmptyMap, rl |-> EmptyMap, objs |-> limiters, traffic |-> traffic]))
    /\ IF ~config.DisableGetRule /\ ruleAnswer = "ok" /\ Len(ruleList) > 0
       THEN rules' = ruleList
       ELSE UNCHANGED rules
    /\ server' = "running"
    /\ LET r == updatePortHopRulesLocked(n)
       IN /\ portHopRules' = r.portHopRules
          /\ natTable' = r.natTable
    /\ tasks' = "running"
    /\ serviceTag' = TagOf(n)
    /\ UNCHANGED <<config, hubVars, elapsed, sessions, lim, extVars, blockedIDs, detectResults, reloadMu,
                   connVars, um, procVars, reported, histVars>>

\* UpdatePeriodic seconds have passed since Start set startAt
Tick ==
    /\ nodeInfo # NoNode
    /\ ~elapsed
    /\ elapsed' = TRUE
    /\ UNCHANGED <<config, hubVars, sessions, lim, extVars, serviceTag, svcVars, ruleVars, nodeVars, connVars, um, procVars,
                   reported, histVars>>

\* ---------------------------------------------------------------- reload and Close

\* a nodeMonitor that reloads also on a deep-equal NodeInfo
NodeChanged_Always(n) == TRUE

\* nodeMonitor: not (h.nodeInfo != nil && reflect.DeepEqual(h.nodeInfo, nodeInfo))
NodeChanged(n) == ~(nodeInfo # NoNode /\ nodeInfo = n)

\* nodeMonitor up to the call of reloadNode and through its parameter
\* checks: GetNodeInfo answers "ok" with n, "notModified" or "error"
NodeMonitorFetch(answer, n) ==
    /\ tasks = "running"
    /\ pc["node"] = "idle"
    /\ IF /\ ~BootDelay
          /\ answer = "ok"
          /\ n.NodeType = "Hysteria2"
          /\ NodeChanged(n)
          /\ ValidNode(n)
       THEN /\ pc' = [pc EXCEPT !["node"] = "lock"]
            /\ arg' = [arg EXCEPT !["node"] = n]
       ELSE UNCHANGED <<pc, arg>>
    /\ UNCHANGED <<config, hubVars, elapsed, sessions, lim, extVars, serviceTag, svcVars, ruleVars, nodeVars, connVars, um, closePc, reported, histVars>>

\* certMonitor up to the call of reloadNode(h.nodeInfo) and through its
\* parameter checks; renewed is the ok result of RenewCert
CertMonitor(renewed) ==
    /\ tasks = "running"
    /\ pc["cert"] = "idle"
    /\ nodeInfo # NoNode
    /\ nodeInfo.EnableTLS
    /\ IF config.CertMode \in {"dns", "http", "tls"} /\ renewed /\ ValidNode(nodeInfo)
       THEN /\ pc' = [pc EXCEPT !["cert"] = "lock"]
            /\ arg' = [arg EXCEPT !["cert"] = nodeInfo]
       ELSE UNCHANGED <<pc, arg>>
    /\ UNCHANGED <<config, hubVars, elapsed, sessions, lim, extVars, serviceTag, svcVars, ruleVars, nodeVars, connVars, um, closePc, reported, histVars>>

\* reloadNode: h.reloadMu.Lock()
ReloadLock(p) ==
    /\ pc[p] = "lock"
    /\ CanLock
    /\ reloadMu' = p
    /\ pc' = [pc EXCEPT ![p] = "swap"]
    /\ UNCHANGED <<config, hubVars, elapsed, sessions, lim, extVars, serviceTag, svcVars, ruleVars, nodeInfo, server, tasks, portHopRules, natTable,
                   connVars, um, arg, closePc, reported, histVars>>

\* reloadNode: h.nodeInfo = nodeInfo; h.updatePortHopRulesLocked()
ReloadSwap(p) ==
    /\ pc[p] = "swap"
    /\ nodeInfo' = arg[p]
    /\ LET r == updatePortHopRulesLocked(arg[p])
       IN /\ portHopRules' = r.portHopRules
          /\ natTable' = r.natTable
    /\ pc' = [pc EXCEPT ![p] = "close"]
    /\ UNCHANGED <<config, hubVars, elapsed, sessions, lim, extVars, serviceTag, svcVars, ruleVars, server, tasks, reloadMu,
                   connVars, um, arg, closePc, reported, histVars>>

\* reloadNode: close the old server and set h.server = nil
ReloadCloseOld(p) ==
    /\ pc[p] = "close"
    /\ server' = "nil"
    /\ pc' = [pc EXCEPT ![p] = "build"]
    /\ UNCHANGED <<config, hubVars, elapsed, sessions, lim, extVars, serviceTag, svcVars, ruleVars, nodeInfo, tasks, portHopRules, reloadMu, natTable,
                   connVars, um, arg, closePc, reported, histVars>>

\* reloadNode: buildServerConfig / NewServer succeed (ok) or fail, then
\* the deferred h.reloadMu.Unlock()
ReloadBuild(p, ok) ==
    /\ pc[p] = "build"
    /\ server' = IF ok THEN "running" ELSE server
    /\ reloadFailed' = ~ok
    /\ reloaded' = (reloaded \/ ok)
    /\ reloadMu' = "free"
    /\ pc' = [pc EXCEPT ![p] = "idle"]
    /\ arg' = [arg EXCEPT ![p] = NoNode]
    /\ UNCHANGED <<config, synced, mu, tl, shared, gl, link, elapsed, sessions, lim, extVars, serviceTag, svcVars, ruleVars, nodeInfo, tasks, portHopRules, natTable,
                   connVars, um, closePc, reported,
                   observed, counted, phase, offending, owed>>

\* Close() is called on a started service, for the first time or again
CloseCall ==
    /\ closePc \in {"idle", "returned"}
    /\ nodeInfo # NoNode
    /\ closePc' = "lock"
    /\ UNCHANGED <<config, hubVars, elapsed, sessions, lim, extVars, serviceTag, svcVars, ruleVars, nodeVars, connVars, um, pc, arg, reported, histVars>>

\* Close: h.reloadMu.Lock()
CloseLock ==
    /\ closePc = "lock"
    /\ CanLock
    /\ reloadMu' = "close"
    /\ closePc' = "rules"
    /\ UNCHANGED <<config, hubVars, elapsed, sessions, lim, extVars, serviceTag, svcVars, ruleVars, nodeInfo, server, tasks, portHopRules, natTable,
                   connVars, um, pc, arg, reported, histVars>>

\* Close: delete the tracked rules, h.reloadMu.Unlock()
CloseRules ==
    /\ closePc = "rules"
    /\ natTable' = IF Len(portHopRules) > 0
                   THEN deletePortHopIptablesRules(natTable, portHopRules)
                   ELSE natTable
    /\ portHopRules' = <<>>
    /\ reloadMu' = "free"
    /\ closePc' = "tasks"
    /\ UNCHANGED <<config, hubVars, elapsed, sessions, lim, extVars, serviceTag, svcVars, ruleVars, nodeInfo, server, tasks,
                   connVars, um, pc, arg, reported, histVars>>

\* Close: close every periodic task (executions in flight go on), h.tasks = nil
CloseTasks ==
    /\ closePc = "tasks"
    /\ tasks' = "nil"
    /\ closePc' = "server"
    /\ UNCHANGED <<config, hubVars, elapsed, sessions, lim, extVars, serviceTag, svcVars, ruleVars, nodeInfo, server, portHopRules, reloadMu, natTable,
                   connVars, um, pc, arg, reported, histVars>>

\* the embedded server after h.server.Close(): h.server keeps pointing to it,
\* "closedTwice" is a closed server whose Close was called again
ServerClose(srv) == IF srv \in {"closed", "closedTwice"} THEN "closedTwice" ELSE "closed"

\* Close: if h.server != nil, h.server.Close(); return
CloseServer ==
    /\ closePc = "server"
    /\ server' = IF server # "nil" THEN ServerClose(server) ELSE server
    /\ closePc' = "returned"
    /\ UNCHANGED <<config, hubVars, elapsed, sessions, lim, extVars, serviceTag, svcVars, ruleVars, nodeInfo, tasks, portHopRules, reloadMu, natTable,
                   connVars, um, pc, arg, reported, histVars>>

\* ---------------------------------------------------------------- AnyTLS service
\* In the AnyTLS specification the service variables (nodeInfo, users,
\* traffic, onlineIPs, ipLastActive, rateLimiters, server, tasks) stand for
\* the fields of the same names of AnyTLSService (server for its box);
\* AnyTLSService.syncUsers computes users and rateLimiters as SyncLoop does.

\* AnyTLSService.Start()
AnyTLSStart(n, list, ruleAnswer, ruleList) ==
    /\ nodeInfo = NoNode
    /\ n.NodeType = "AnyTLS"
    /\ n.Port # 0
    /\ nodeInfo' = n
    /\ syncUsersWith(SyncLoop(list, n.SpeedLimit,
           [users |-> EmptyMap, rl |-> EmptyMap, objs |-> limiters, traffic |-> traffic]))
    /\ IF ~config.DisableGetRule /\ ruleAnswer = "ok" /\ Len(ruleList) > 0
       THEN rules' = ruleList
       ELSE UNCHANGED rules
    /\ server' = "running"
    /\ tasks' = "running"
    /\ serviceTag' = TagOf(n)
    /\ UNCHANGED <<config, hubVars, elapsed, sessions, lim, extVars, blockedIDs, detectResults, portHopRules,
                   reloadMu,
                   natTable, connVars, um, procVars, reported, histVars>>

\* AnyTLS userMonitor up to and including syncUsers, GetUserList answering list
AnyTLSSync(list) ==
    /\ tasks = "running"
    /\ ~BootDelay
    /\ syncUsers(list)
    /\ UNCHANGED <<config, hubVars, elapsed, sessions, lim, extVars, serviceTag, blockedIDs, ruleVars, nodeVars, connVars, um,
                   procVars, reported, histVars>>

\* the result of allowConnection(uuid, ip) in the current state
allowConnectionOk(uuid, ip) ==
    /\ uuid \in DOMAIN users
    /\ LET ips == IF uuid \in DOMAIN onlineIPs THEN onlineIPs[uuid] ELSE {}
       IN ~(/\ ip \notin ips
            /\ users[uuid].DeviceLimit > 0
            /\ Cardinality(ips) >= users[uuid].DeviceLimit)

\* the limiter field of the connCounter RoutedConnection returns (0 is nil)
RoutedLimiter(user) == 0

\* anyTLSTracker.RoutedConnection for a connection of user from ip to dest
RoutedConnection(user, ip, dest) ==
    /\ server = "running"
    /\ user # ""
    /\ LET ok == user \in DOMAIN users
           hit == ok /\ dest # "" /\ Detect(dest)
           allowed == allowConnectionOk(user, ip)
           ips == IF user \in DOMAIN onlineIPs THEN onlineIPs[user] ELSE {}
           act == IF user \in DOMAIN ipLastActive THEN ipLastActive[user] ELSE {}
       IN /\ detectResults' = IF hit
                              THEN detectResults \cup
                                     {[UID |-> users[user].UID,
                                       RuleID |-> FirstMatch(rules, dest), IP |-> ip]}
                              ELSE detectResults
          /\ IF hit \/ ~ok
             THEN UNCHANGED <<onlineIPs, ipLastActive>>
             ELSE /\ onlineIPs' = Put(onlineIPs, user, IF allowed THEN ips \cup {ip} ELSE ips)
                  /\ ipLastActive' = Put(ipLastActive, user, IF allowed THEN act \cup {ip} ELSE act)
          /\ sessions' = sessions \cup
                 {IF hit \/ ~allowed
                  THEN [user |-> user, ip |-> ip, blocked |-> TRUE, limiter |-> 0]
                  ELSE [user |-> user, ip |-> ip, blocked |-> FALSE,
                        limiter |-> RoutedLimiter(user)]}
    /\ UNCHANGED <<config, hubVars, elapsed, lim, extVars, serviceTag, users, traffic, blockedIDs, rateLimiters,
                   limiters, rules, nodeVars, connVars, um, procVars, reported, histVars>>

\* connCounter.Read / Write: whether the call waits on a rate limiter
ConnWaits(c) == c.limiter # 0

\* connCounter.Read (up = n) or Write (down = n) moving n > 0 bytes:
\* addTraffic, updateOnlineIP, then WaitN on the wrapper's limiter if any
ConnIO(c, up, down) ==
    /\ c \in sessions
    /\ ~c.blocked
    /\ observed + up + down <= MaxBytes
    /\ observed' = observed + up + down
    /\ traffic' = Put(traffic, c.user, AddTraffic(HeldOf(traffic, c.user), up, down))
    /\ counted' = [counted EXCEPT ![c.user] = AddTraffic(@, up, down)]
    /\ onlineIPs' = Put(onlineIPs, c.user,
           (IF c.user \in DOMAIN onlineIPs THEN onlineIPs[c.user] ELSE {}) \cup {c.ip})
    /\ ipLastActive' = Put(ipLastActive, c.user,
           (IF c.user \in DOMAIN ipLastActive THEN ipLastActive[c.user] ELSE {}) \cup {c.ip})
    /\ UNCHANGED <<config, hubVars, elapsed, sessions, lim, extVars, serviceTag, users, blockedIDs, rateLimiters, limiters, ruleVars,
                   nodeVars, connVars, um, procVars, reported,
                   phase, offending, owed, reloadFailed>>

ConnRead(c) == ConnIO(c, 1, 0)

ConnWrite(c) == ConnIO(c, 0, 1)

\* connCounter.Close
ConnClose(c) ==
    /\ c \in sessions
    /\ sessions' = sessions \ {c}
    /\ onlineIPs' = IF c.user \in DOMAIN onlineIPs
                    THEN IF onlineIPs[c.user] \ {c.ip} = {} THEN Del(onlineIPs, c.user)
                         ELSE Put(onlineIPs, c.user, onlineIPs[c.user] \ {c.ip})
                    ELSE onlineIPs
    /\ ipLastActive' = IF c.user \in DOMAIN ipLastActive
                       THEN IF ipLastActive[c.user] \ {c.ip} = {} THEN Del(ipLastActive, c.user)
                            ELSE Put(ipLastActive, c.user, ipLastActive[c.user] \ {c.ip})
                       ELSE ipLastActive
    /\ UNCHANGED <<config, hubVars, elapsed, lim, extVars, serviceTag, users, traffic, blockedIDs, rateLimiters,
                   limiters, ruleVars, nodeVars, connVars, um, procVars, reported, histVars>>

\* ---------------------------------------------------------------- limiter package
\* One inbound tag with one user (LimUser) registered by AddInboundLimiter,
\* global limit off, no speed limit (so BucketHub stays empty).  lim holds
\*   UserOnlineIP  the submap registered for the user (0: no entry)
\*   ipMaps        the contents of each submap object ever made
\*   made          how many submap objects were made
\*   gub           the GetUserBucket calls, god the GetOnlineDevice call
\* A sync.Map Range in progress keeps lo, the keys present during all of it
\* so far, and hi, the keys present at some point of it: it may visit any
\* set between the two.

LimUser == [UID |-> 1, SpeedLimit |-> 0, DeviceLimit |-> 2]

GubProcs == {"g1", "g2"}

IdleGub == [pc |-> "idle", ip |-> "", m |-> 0, fresh |-> FALSE, lo |-> {}, hi |-> {},
            counter |-> 0, result |-> "none"]

IdleGod == [pc |-> "idle", m |-> 0, lo |-> {}, hi |-> {}, out |-> {}]

LimInit == [UserOnlineIP |-> 0, ipMaps |-> [i \in 1..MaxMaps |-> {}], made |-> 0,
            gub |-> [p \in GubProcs |-> IdleGub], god |-> IdleGod]

\* what a Range in progress over submap m records when ip is stored / deleted
RangeSees(r, m, ip) == IF r.pc = "ranging" /\ r.m = m THEN [r EXCEPT !.hi = @ \cup {ip}] ELSE r

RangeLoses(r, m, ip) == IF r.pc = "ranging" /\ r.m = m THEN [r EXCEPT !.lo = @ \ {ip}] ELSE r

\* ipMap.LoadOrStore(ip, uid) storing a new key / ipMap.Delete(ip)
MapStore(l, m, ip) ==
    [l EXCEPT !.ipMaps[m] = @ \cup {ip},
              !.gub = [p \in GubProcs |-> RangeSees(@[p], m, ip)],
              !.god = RangeSees(@, m, ip)]

MapDelete(l, m, ip) ==
    [l EXCEPT !.ipMaps[m] = @ \ {ip},
              !.gub = [p \in GubProcs |-> RangeLoses(@[p], m, ip)],
              !.god = RangeLoses(@, m, ip)]

OverLimit_Loose(counter, deviceLimit) == counter > deviceLimit + 1 /\ deviceLimit > 0

\* the local device-limit test of GetUserBucket
OverLimit(counter, deviceLimit) == counter > deviceLimit /\ deviceLimit > 0

LimFrame ==
    UNCHANGED <<config, hubVars, elapsed, sessions, extVars, serviceTag, svcVars, ruleVars, nodeVars, connVars, um, procVars,
                reported, histVars>>

\* GetUserBucket: UserOnlineIP.LoadOrStore(userKey, new submap holding ip).
\* When the new submap is stored the call returns without a device check.
GubLoadOuter(p, ip) ==
    /\ lim.gub[p].pc = "idle"
    /\ IF lim.UserOnlineIP = 0
       THEN /\ lim.made < MaxMaps
            /\ lim' = [lim EXCEPT !.made = @ + 1,
                                  !.ipMaps[lim.made + 1] = {ip},
                                  !.UserOnlineIP = lim.made + 1,
                                  !.gub[p] = [IdleGub EXCEPT !.result = "ok"]]
       ELSE lim' = [lim EXCEPT !.gub[p] = [IdleGub EXCEPT !.pc = "loaded", !.ip = ip,
                                                          !.m = lim.UserOnlineIP]]
    /\ LimFrame

\* GetUserBucket: ipMap.LoadOrStore(ip, uid) on the submap found
GubLoadInner(p) ==
    /\ lim.gub[p].pc = "loaded"
    /\ LET g == lim.gub[p]
       IN IF g.ip \in lim.ipMaps[g.m]
          THEN lim' = [lim EXCEPT !.gub[p] = [IdleGub EXCEPT !.result = "ok"]]
          ELSE lim' = [MapStore(lim, g.m, g.ip) EXCEPT !.gub[p].pc = "inserted",
                                                       !.gub[p].fresh = TRUE]
    /\ LimFrame

\* GetUserBucket: ipMap.Range begins
GubRangeStart(p) ==
    /\ lim.gub[p].pc = "inserted"
    /\ lim' = [lim EXCEPT !.gub[p].pc = "ranging",
                          !.gub[p].lo = lim.ipMaps[lim.gub[p].m],
                          !.gub[p].hi = lim.ipMaps[lim.gub[p].m]]
    /\ LimFrame

\* GetUserBucket: ipMap.Range ends having counted counter keys
GubRangeEnd(p, counter) ==
    /\ lim.gub[p].pc = "ranging"
    /\ Cardinality(lim.gub[p].lo) <= counter
    /\ counter <= Cardinality(lim.gub[p].hi)
    /\ lim' = [lim EXCEPT !.gub[p].pc = "counted", !.gub[p].counter = counter,
                          !.gub[p].lo = {}, !.gub[p].hi = {}]
    /\ LimFrame

\* GetUserBucket: the device-limit test, ipMap.Delete(ip) and the return
GubCheck(p) ==
    /\ lim.gub[p].pc = "counted"
    /\ LET g == lim.gub[p]
       IN IF OverLimit(g.counter, LimUser.DeviceLimit)
          THEN lim' = [MapDelete(lim, g.m, g.ip) EXCEPT
                          !.gub[p] = [IdleGub EXCEPT !.fresh = TRUE, !.result = "reject"]]
          ELSE lim' = [lim EXCEPT !.gub[p] = [IdleGub EXCEPT !.fresh = TRUE, !.result = "ok"]]
    /\ LimFrame

\* GetOnlineDevice: UserOnlineIP.Range reaches the user's entry and the
\* Range over its submap begins; without an entry the call returns nothing
GodRangeStart ==
    /\ lim.god.pc = "idle"
    /\ IF lim.UserOnlineIP = 0
       THEN lim' = [lim EXCEPT !.god = IdleGod]
       ELSE lim' = [lim EXCEPT !.god = [pc |-> "ranging", m |-> lim.UserOnlineIP,
                                        lo |-> lim.ipMaps[lim.UserOnlineIP],
                                        hi |-> lim.ipMaps[lim.UserOnlineIP], out |-> {}]]
    /\ LimFrame

\* GetOnlineDevice: the Range over the submap ends having appended seen
GodRangeEnd(seen) ==
    /\ lim.god.pc = "ranging"
    /\ lim.god.lo \subseteq seen
    /\ seen \subseteq lim.god.hi
    /\ lim' = [lim EXCEPT !.god = [IdleGod EXCEPT
                              !.pc = "ranged", !.m = lim.god.m,
                              !.out = {[UID |-> LimUser.UID, IP |-> ip] : ip \in seen}]]
    /\ LimFrame

\* GetOnlineDevice: UserOnlineIP.Delete(email) and the return
GodDelete ==
    /\ lim.god.pc = "ranged"
    /\ lim' = [lim EXCEPT !.UserOnlineIP = 0, !.god = IdleGod]
    /\ LimFrame

\* ---------------------------------------------------------------- controller data path
\* A tag is the sequence <<prefix, rest>> of the string prefix ++ rest; <<>>
\* is the empty string.  dp.obm is the set of tags the outbound manager has
\* a handler for (AddHandler registers a wrapper under its Tag(), which is
\* the tag of the controller that made it); dp.last is the outcome of the
\* latest Dispatch.

xrayRManagedPrefixes == {"VLESS_", "Trojan_", "Vmess_", "Shadowsocks_"}

isXrayRManagedTag(tag) == \E prefix \in xrayRManagedPrefixes : Len(tag) > 0 /\ tag[1] = prefix

NoHandler == [of |-> <<>>]

NoWrapper == [tag |-> <<>>, Handler |-> NoHandler, obm |-> FALSE]

\* the dataPathWrapper addOutbound builds for the controller with tag t
Wrapper(t) == [tag |-> t, Handler |-> [of |-> t], obm |-> TRUE]

\* outbound.Manager.GetHandler
GetHandler(obm, tag) == IF tag \in obm THEN Wrapper(tag) ELSE NoWrapper

NeedsRedispatch_Never(w, inTag) == FALSE

\* the test that sends Dispatch to the same-node lookup
NeedsRedispatch(w, inTag) == isXrayRManagedTag(inTag) /\ inTag # <<>> /\ inTag # w.tag

Rejected(hops) == [handler |-> NoHandler, closed |-> TRUE, hops |-> hops]

\* dataPathWrapper.Dispatch on wrapper w for a link whose inbound session
\* (if hasSess) carries inTag; hit and reject are the answers of Detect and
\* GetUserBucket.  The result names the underlying handler that got the link.
RECURSIVE DispatchOutcome(_, _, _, _, _, _, _)
DispatchOutcome(obm, w, inTag, hasSess, hit, reject, hops) ==
    LET here == IF hasSess /\ (hit \/ reject)
                THEN Rejected(hops)
                ELSE [handler |-> w.Handler, closed |-> FALSE, hops |-> hops]
    IN IF hasSess /\ NeedsRedispatch(w, inTag)
       THEN IF ~w.obm THEN Rejected(hops)
            ELSE LET h == GetHandler(obm, inTag)
                 IN IF h = NoWrapper THEN Rejected(hops)
                    ELSE IF h = w THEN here
                    ELSE DispatchOutcome(obm, h, inTag, hasSess, hit, reject, hops + 1)
       ELSE here

NoLast == [via |-> <<>>, inTag |-> <<>>, sess |-> FALSE, out |-> Rejected(0)]

DpInit == [obm |-> {}, last |-> NoLast]

DpFrame ==
    UNCHANGED <<config, hubVars, elapsed, sessions, lim, ph, fw, dr, lt, polled, serviceTag, svcVars, ruleVars, nodeVars, connVars, um,
                procVars, reported, histVars>>

\* Controller.addOutbound / removeOutbound for the controller with tag t
addOutbound(t) ==
    /\ t \notin dp.obm
    /\ dp' = [dp EXCEPT !.obm = @ \cup {t}]
    /\ DpFrame

removeOutbound(t) ==
    /\ t \in dp.obm
    /\ dp' = [dp EXCEPT !.obm = @ \ {t}]
    /\ DpFrame

\* the core hands a link to the registered wrapper with tag t
Dispatch(t, inTag, hasSess, hit, reject) ==
    /\ t \in dp.obm
    /\ dp' = [dp EXCEPT !.last =
                 [via |-> t, inTag |-> inTag, sess |-> hasSess,
                  out |-> DispatchOutcome(dp.obm, Wrapper(t), inTag, hasSess, hit, reject, 0)]]
    /\ DpFrame

\* ---------------------------------------------------------------- ports expression
\* A ports expression is the sequence of the parts strings.FieldsFunc cuts it
\* into; a part is a sequence of atoms: a run of digits (Num, with the value
\* strconv.Atoi gives it), a "-" (Dash), or any other text (Junk).

Num(v) == [k |-> "num", v |-> v]

Dash == [k |-> "dash", v |-> 0]

Junk == [k |-> "junk", v |-> 0]

\* strconv.Atoi: <<ok, value>>; a leading "-" is a sign
Atoi(s) ==
    IF Len(s) = 1 /\ s[1].k = "num" THEN <<TRUE, s[1].v>>
    ELSE IF Len(s) = 2 /\ s[1] = Dash /\ s[2].k = "num" THEN <<TRUE, 0 - s[2].v>>
    ELSE <<FALSE, 0>>

\* strings.Index(seg, "-"), counted in atoms from 1; 0 when there is none
DashIndex(seg) ==
    IF \E i \in 1..Len(seg) : seg[i] = Dash
    THEN CHOOSE i \in 1..Len(seg) : seg[i] = Dash /\ \A j \in 1..(i - 1) : seg[j] # Dash
    ELSE 0

\* the start and end buildPortHopRules reads from one part, if it reads any
parseSegment(seg) ==
    LET dash == DashIndex(seg)
    IN IF dash > 0
       THEN LET s == Atoi(SubSeq(seg, 1, dash - 1))
                e == Atoi(SubSeq(seg, dash + 1, Len(seg)))
            IN IF ~s[1] \/ ~e[1] THEN <<>> ELSE <<<<s[2], e[2]>>>>
       ELSE LET p == Atoi(seg)
            IN IF ~p[1] THEN <<>> ELSE <<<<p[2], p[2]>>>>

RECURSIVE parseSegments(_)
parseSegments(parts) ==
    IF parts = <<>> THEN <<>>
    ELSE parseSegment(Head(parts)) \o parseSegments(Tail(parts))

\* buildPortHopRules(basePort, portsExpr) on the expression with these parts
buildPortHopRulesOf(bp, parts) == buildPortHopRules(bp, parseSegments(parts))

PhInit == [called |-> FALSE, bp |-> 0, expr |-> <<>>, rules |-> <<>>]

\* the first call of buildPortHopRules
BuildRules(bp, parts) ==
    /\ ~ph.called
    /\ ph' = [called |-> TRUE, bp |-> bp, expr |-> parts,
              rules |-> buildPortHopRulesOf(bp, parts)]
    /\ UNCHANGED <<config, hubVars, elapsed, sessions, lim, dp, fw, dr, lt, polled, serviceTag, svcVars, ruleVars, nodeVars, connVars,
                   um, procVars, reported, histVars>>

\* ---------------------------------------------------------------- host firewall

FwInit == [works |-> TRUE, foreign |-> <<>>]

\* iptables commands fail on the host when the service starts (no
\* permission, xtables lock held), and work again later
IptablesBreak ==
    /\ nodeInfo = NoNode
    /\ fw.works
    /\ fw' = [fw EXCEPT !.works = FALSE]
    /\ UNCHANGED <<config, hubVars, elapsed, sessions, lim, dp, ph, dr, lt, polled, serviceTag, svcVars, ruleVars, nodeVars, connVars,
                   um, procVars, reported, histVars>>

IptablesRepair ==
    /\ ~fw.works
    /\ fw' = [fw EXCEPT !.works = TRUE]
    /\ UNCHANGED <<config, hubVars, elapsed, sessions, lim, dp, ph, dr, lt, polled, serviceTag, svcVars, ruleVars, nodeVars, connVars,
                   um, procVars, reported, histVars>>

\* another party appends rule r to NAT PREROUTING before the service starts
ForeignRule(r) ==
    /\ nodeInfo = NoNode
    /\ Len(fw.foreign) < MaxForeign
    /\ natTable' = Append(natTable, r)
    /\ fw' = [fw EXCEPT !.foreign = Append(@, r)]
    /\ UNCHANGED <<config, hubVars, elapsed, sessions, lim, dp, ph, dr, lt, polled, serviceTag, svcVars, ruleVars, nodeInfo, server,
                   tasks, portHopRules, reloadMu, connVars, um, procVars, reported, histVars>>

\* ---------------------------------------------------------------- determineRate copies

\* determineRate of package limiter
limiterDetermineRate(nodeLimit, userLimit) ==
    IF nodeLimit = 0 \/ userLimit = 0
    THEN IF nodeLimit > userLimit THEN nodeLimit
         ELSE IF nodeLimit < userLimit THEN userLimit
         ELSE 0
    ELSE IF nodeLimit > userLimit THEN userLimit
         ELSE IF nodeLimit < userLimit THEN nodeLimit
         ELSE nodeLimit

\* determineRate of package tuic
tuicDetermineRate(nodeLimit, userLimit) ==
    IF nodeLimit = 0 \/ userLimit = 0
    THEN IF nodeLimit > userLimit THEN nodeLimit
         ELSE IF nodeLimit < userLimit THEN userLimit
         ELSE 0
    ELSE IF nodeLimit > userLimit THEN userLimit
         ELSE IF nodeLimit < userLimit THEN nodeLimit
         ELSE nodeLimit

\* determineRate of package anytls
anytlsDetermineRate(nodeLimit, userLimit) ==
    IF nodeLimit = 0 \/ userLimit = 0
    THEN IF nodeLimit > userLimit THEN nodeLimit
         ELSE IF nodeLimit < userLimit THEN userLimit
         ELSE 0
    ELSE IF nodeLimit > userLimit THEN userLimit
         ELSE IF nodeLimit < userLimit THEN nodeLimit
         ELSE nodeLimit

DrInit == [called |-> FALSE, nodeLimit |-> 0, userLimit |-> 0,
           limiter |-> 0, hysteria2 |-> 0, tuic |-> 0, anytls |-> 0]

\* one call of each copy with the same arguments
DetermineRates(nodeLimit, userLimit) ==
    /\ dr' = [called |-> TRUE, nodeLimit |-> nodeLimit, userLimit |-> userLimit,
              limiter |-> limiterDetermineRate(nodeLimit, userLimit),
              hysteria2 |-> determineRate(nodeLimit, userLimit),
              tuic |-> tuicDetermineRate(nodeLimit, userLimit),
              anytls |-> anytlsDetermineRate(nodeLimit, userLimit)]
    /\ UNCHANGED <<config, hubVars, elapsed, sessions, lim, dp, ph, fw, lt, polled, serviceTag, svcVars, ruleVars, nodeVars,
                   connVars, um, procVars, reported, histVars>>

\* ---------------------------------------------------------------- Limiter, per tag
\* lt.real is the Limiter (InboundInfo by tag, the Redis store the global
\* device limit of every inbound reads and writes, the pushIP goroutines not
\* yet run); lt.shadow is a second Limiter that receives only the calls made
\* for the tag T2; lt.out holds the result of the latest call for T2 on each.

T1 == "t1"
T2 == "t2"

UserKey_NoTag(tag, u) == <<"", u.Email, u.UID>>

\* userKey := fmt.Sprintf("%s|%s|%d", tag, u.Email, u.UID)
UserKey(tag, u) == <<tag, u.Email, u.UID>>

\* limiter.New()
NewLimiter == [InboundInfo |-> EmptyMap, redis |-> EmptyMap, pushes |-> {}]

\* the value of an operation: error, bucket (0 is nil), SpeedLimit, Reject, online list
Res(err, limiter, speedLimit, reject, list) ==
    [err |-> err, limiter |-> limiter, SpeedLimit |-> speedLimit, Reject |-> reject, list |-> list]

NoRes == Res(FALSE, 0, FALSE, FALSE, {})

RECURSIVE StoreUsers(_, _, _)
\* the UserInfo map after storing each user of list under its key
StoreUsers(m, tag, list) ==
    IF list = <<>> THEN m
    ELSE LET u == Head(list)
         IN StoreUsers(Put(m, UserKey(tag, u),
                           [UID |-> u.UID, SpeedLimit |-> u.SpeedLimit,
                            DeviceLimit |-> u.DeviceLimit]),
                       tag, Tail(list))

\* Limiter.AddInboundLimiter on the limiter L
AddInboundLimiterOn(L, tag, nodeSpeedLimit, userList, enable) ==
    [L |-> [L EXCEPT !.InboundInfo =
                Put(@, tag, [NodeSpeedLimit |-> nodeSpeedLimit,
                             BucketHub |-> EmptyMap,
                             UserOnlineIP |-> EmptyMap,
                             GlobalLimit |-> enable,
                             UserInfo |-> StoreUsers(EmptyMap, tag, userList)])],
     res |-> NoRes]

\* an update that stores the users and leaves the buckets alone
UpdateUsers_KeepBuckets(info, tag, list) == [info EXCEPT !.UserInfo = StoreUsers(@, tag, list)]

RECURSIVE UpdateUsers(_, _, _)
\* the loop of UpdateInboundLimiter over updatedUserList on the InboundInfo info
UpdateUsers(info, tag, list) ==
    IF list = <<>> THEN info
    ELSE LET u == Head(list)
             userKey == UserKey(tag, u)
             limit == limiterDetermineRate(info.NodeSpeedLimit, u.SpeedLimit)
             stored == [info EXCEPT !.UserInfo = StoreUsers(@, tag, <<u>>)]
             hub == info.BucketHub
         IN UpdateUsers([stored EXCEPT !.BucketHub =
                            IF limit > 0
                            THEN IF userKey \in DOMAIN hub THEN Put(hub, userKey, limit) ELSE hub
                            ELSE Del(hub, userKey)],
                        tag, Tail(list))

\* Limiter.UpdateInboundLimiter on the limiter L
UpdateInboundLimiterOn(L, tag, updatedUserList) ==
    IF tag \in DOMAIN L.InboundInfo
    THEN [L |-> [L EXCEPT !.InboundInfo =
                     Put(@, tag, UpdateUsers(L.InboundInfo[tag], tag, updatedUserList))],
          res |-> NoRes]
    ELSE [L |-> L, res |-> Res(TRUE, 0, FALSE, FALSE, {})]

\* Limiter.DeleteInboundLimiter on the limiter L
DeleteInboundLimiterOn(L, tag) ==
    [L |-> [L EXCEPT !.InboundInfo = Del(@, tag)], res |-> NoRes]

\* Limiter.GetOnlineDevice on the limiter L
GetOnlineDeviceOn(L, tag) ==
    IF tag \in DOMAIN L.InboundInfo
    THEN LET info == L.InboundInfo[tag]
             online == info.UserOnlineIP
         IN [L |-> [L EXCEPT !.InboundInfo =
                        Put(@, tag, [info EXCEPT !.BucketHub = Restrict(@, DOMAIN online),
                                                 !.UserOnlineIP = EmptyMap])],
             res |-> Res(FALSE, 0, FALSE, FALSE,
                         UNION {{[UID |-> online[k][ip], IP |-> ip] : ip \in DOMAIN online[k]} :
                                k \in DOMAIN online})]
    ELSE [L |-> L, res |-> Res(TRUE, 0, FALSE, FALSE, {})]

OverGlobal_Loose(n, deviceLimit) == deviceLimit > 0 /\ n > deviceLimit + 1

\* deviceLimit > 0 && len(*ipMap) > deviceLimit
OverGlobal(n, deviceLimit) == deviceLimit > 0 /\ n > deviceLimit

\* globalLimit(inboundInfo, userKey, uid, ip, deviceLimit) when globalOnlineIP.Get
\* answers got (err: "none", "NotFound" or "other"; v: the map read): the
\* reject decision and the pushIP goroutines it starts
globalLimitOn(got, userKey, uid, ip, deviceLimit) ==
    IF got.err # "none"
    THEN [reject |-> FALSE,
          go |-> IF got.err = "NotFound"
                 THEN {[uniqueKey |-> userKey, ipMap |-> Put(EmptyMap, ip, uid)]}
                 ELSE {}]
    ELSE LET ipMap == got.v
         IN IF OverGlobal(Cardinality(DOMAIN ipMap), deviceLimit)
            THEN [reject |-> TRUE, go |-> {}]
            ELSE IF ip \notin DOMAIN ipMap
            THEN [reject |-> FALSE,
                  go |-> {[uniqueKey |-> userKey, ipMap |-> Put(ipMap, ip, uid)]}]
            ELSE [reject |-> FALSE, go |-> {}]

\* globalLimit reading the store redis, which answers every Get
globalLimit(redis, userKey, uid, ip, deviceLimit) ==
    globalLimitOn(IF userKey \in DOMAIN redis THEN [err |-> "none", v |-> redis[userKey]]
                  ELSE [err |-> "NotFound", v |-> EmptyMap],
                  userKey, uid, ip, deviceLimit)

GlInit == [called |-> FALSE, got |-> [err |-> "none", v |-> EmptyMap], uid |-> 0, ip |-> "",
           deviceLimit |-> 0, out |-> [reject |-> FALSE, go |-> {}]]

\* one call of globalLimit
GlobalLimitCall(got, userKey, uid, ip, deviceLimit) ==
    /\ ~gl.called
    /\ gl' = [called |-> TRUE, got |-> got, uid |-> uid, ip |-> ip, deviceLimit |-> deviceLimit,
              out |-> globalLimitOn(got, userKey, uid, ip, deviceLimit)]
    /\ UNCHANGED <<config, synced, mu, tl, shared, link, reloaded, elapsed, sessions, lim, extVars, serviceTag, svcVars, ruleVars,
                   nodeVars, connVars, um, procVars, reported, histVars>>

\* Limiter.GetUserBucket on the limiter L
GetUserBucketOn(L, tag, userKey, ip) ==
    IF tag \notin DOMAIN L.InboundInfo
    THEN [L |-> L, res |-> NoRes]
    ELSE LET info == L.InboundInfo[tag]
             known == userKey \in DOMAIN info.UserInfo
             uid == IF known THEN info.UserInfo[userKey].UID ELSE 0
             userLimit == IF known THEN info.UserInfo[userKey].SpeedLimit ELSE 0
             deviceLimit == IF known THEN info.UserInfo[userKey].DeviceLimit ELSE 0
             had == userKey \in DOMAIN info.UserOnlineIP
             old == IF had THEN info.UserOnlineIP[userKey] ELSE EmptyMap
             added == IF ip \in DOMAIN old THEN old ELSE Put(old, ip, uid)
             localReject == /\ had
                            /\ ip \notin DOMAIN old
                            /\ OverLimit(Cardinality(DOMAIN added), deviceLimit)
             online == Put(info.UserOnlineIP, userKey, IF localReject THEN old ELSE added)
             global == IF info.GlobalLimit /\ ~localReject
                       THEN globalLimit(L.redis, userKey, uid, ip, deviceLimit)
                       ELSE [reject |-> FALSE, go |-> {}]
             limit == limiterDetermineRate(info.NodeSpeedLimit, userLimit)
             bucket == IF userKey \in DOMAIN info.BucketHub
                       THEN info.BucketHub[userKey] ELSE limit
             pass == ~localReject /\ ~global.reject
         IN [L |-> [L EXCEPT !.InboundInfo =
                        Put(@, tag, [info EXCEPT !.UserOnlineIP = online,
                                                 !.BucketHub = IF pass /\ limit > 0
                                                               THEN Put(@, userKey, bucket)
                                                               ELSE @]),
                              !.pushes = @ \cup global.go],
             res |-> IF ~pass THEN Res(FALSE, 0, FALSE, TRUE, {})
                     ELSE IF limit > 0 THEN Res(FALSE, bucket, TRUE, FALSE, {})
                     ELSE NoRes]

\* pushIP(inboundInfo, uniqueKey, ipMap) on the limiter L
pushIPOn(L, p) ==
    [L EXCEPT !.redis = Put(@, p.uniqueKey, p.ipMap), !.pushes = @ \ {p}]

LtInit == [real |-> NewLimiter, shadow |-> NewLimiter, out |-> [real |-> NoRes, shadow |-> NoRes]]

LtFrame ==
    UNCHANGED <<config, hubVars, elapsed, sessions, lim, dp, ph, fw, dr, polled, serviceTag, svcVars, ruleVars,
                nodeVars, connVars, um, procVars, reported, histVars>>

\* one call for tag: real and shadow are its outcome on lt.real and on lt.shadow
LtCall(tag, real, shadow) ==
    /\ lt' = IF tag = T2
             THEN [real |-> real.L, shadow |-> shadow.L,
                   out |-> [real |-> real.res, shadow |-> shadow.res]]
             ELSE [lt EXCEPT !.real = real.L]
    /\ LtFrame

\* enable: globalLimit != nil && globalLimit.Enable
AddInboundLimiter(tag, nodeSpeedLimit, userList, enable) ==
    LtCall(tag, AddInboundLimiterOn(lt.real, tag, nodeSpeedLimit, userList, enable),
                AddInboundLimiterOn(lt.shadow, tag, nodeSpeedLimit, userList, enable))

UpdateInboundLimiter(tag, updatedUserList) ==
    LtCall(tag, UpdateInboundLimiterOn(lt.real, tag, updatedUserList),
                UpdateInboundLimiterOn(lt.shadow, tag, updatedUserList))

DeleteInboundLimiter(tag) ==
    LtCall(tag, DeleteInboundLimiterOn(lt.real, tag), DeleteInboundLimiterOn(lt.shadow, tag))

GetOnlineDevice(tag) ==
    LtCall(tag, GetOnlineDeviceOn(lt.real, tag), GetOnlineDeviceOn(lt.shadow, tag))

\* Dispatch's call GetUserBucket(w.tag, sess.User.Email, srcIP) for the user u
\* of the inbound tag, whose Email field holds the user key of that inbound
GetUserBucket(tag, u, ip) ==
    /\ Cardinality(lt.real.pushes) < MaxPushes
    /\ LtCall(tag, GetUserBucketOn(lt.real, tag, UserKey(tag, u), ip),
                   GetUserBucketOn(lt.shadow, tag, UserKey(tag, u), ip))

\* a pushIP goroutine started by globalLimit runs
PushIP(p) ==
    /\ p \in lt.real.pushes
    /\ lt' = [lt EXCEPT !.real = pushIPOn(@, p),
                        !.shadow = IF p \in @.pushes THEN pushIPOn(@, p) ELSE @]
    /\ LtFrame

\* ---------------------------------------------------------------- Limiter, one user's bucket
\* One inbound tag with NodeSpeedLimit 0, the global limit off and one user
\* without a device limit.  shared holds
\*   UserInfo      the SpeedLimit stored for the user
\*   UserOnlineIP  whether the user has an entry in UserOnlineIP
\*   BucketHub     the rate.Limiter stored for the user (0: none)
\*   buckets       the limit of every rate.Limiter made, in order of creation
\*   links         per link: -1 not active, 0 active without a bucket, else
\*                 the rate.Limiter its reader and writer are wrapped with

SharedLinks == {"l1", "l2", "l3"}

SharedInit == [UserInfo |-> 1, UserOnlineIP |-> FALSE, BucketHub |-> 0, buckets |-> <<>>,
               links |-> [c \in SharedLinks |-> -1]]

SharedFrame ==
    UNCHANGED <<config, synced, mu, tl, gl, link, reloaded, elapsed, sessions, lim, extVars, serviceTag, svcVars, ruleVars, nodeVars,
                connVars, um, procVars, reported, histVars>>

\* GetOnlineDevice's BucketHub.Range keeps the bucket of a user that has an
\* entry in UserOnlineIP
SweepKeeps(online) == online

\* Dispatch of the link c: GetUserBucket admits it and the link is wrapped
\* with the bucket returned, when there is one
SharedGetUserBucket(c) ==
    /\ shared.links[c] = -1
    /\ LET limit == limiterDetermineRate(0, shared.UserInfo)
           stored == shared.BucketHub # 0
           bucket == IF limit = 0 THEN 0
                     ELSE IF stored THEN shared.BucketHub
                     ELSE Len(shared.buckets) + 1
       IN /\ limit > 0 /\ ~stored => Len(shared.buckets) < MaxBuckets
          /\ shared' = [shared EXCEPT
                           !.UserOnlineIP = TRUE,
                           !.BucketHub = IF limit > 0 THEN bucket ELSE @,
                           !.buckets = IF limit > 0 /\ ~stored THEN Append(@, limit) ELSE @,
                           !.links[c] = bucket]
    /\ SharedFrame

\* GetOnlineDevice for the tag
SharedGetOnlineDevice ==
    /\ shared' = [shared EXCEPT
                     !.BucketHub = IF SweepKeeps(shared.UserOnlineIP) THEN @ ELSE 0,
                     !.UserOnlineIP = FALSE]
    /\ SharedFrame

\* UpdateInboundLimiter with a list that holds the user with SpeedLimit speedLimit
SharedUpdateInboundLimiter(speedLimit) ==
    /\ LET limit == limiterDetermineRate(0, speedLimit)
       IN shared' = [shared EXCEPT
                        !.UserInfo = speedLimit,
                        !.BucketHub = IF limit > 0 THEN @ ELSE 0,
                        !.buckets = IF limit > 0 /\ shared.BucketHub # 0
                                    THEN [@ EXCEPT ![shared.BucketHub] = limit] ELSE @]
    /\ SharedFrame

\* the link c ends
SharedLinkClose(c) ==
    /\ shared.links[c] # -1
    /\ shared' = [shared EXCEPT !.links[c] = -1]
    /\ SharedFrame

\* ---------------------------------------------------------------- Dispatch, audit and limiter
\* link is the transport.Link of the latest Dispatch on the wrapper whose tag
\* equals the inbound tag: what its Reader and Writer are wrapped with (0:
\* not wrapped), whether Detect returned true (detect), whether GetUserBucket
\* rejected and the bucket it returned, whether the underlying handler got
\* the link; called is whether there was a Dispatch, n counts them modulo 2.

RateWriter_Plain(writer, limiter) == writer

\* Limiter.RateWriter / Limiter.RateReader
RateWriter(writer, limiter) == [writer EXCEPT !.limiter = limiter]

RateReader(reader, limiter) == [reader EXCEPT !.limiter = limiter]

PlainLink == [Reader |-> [limiter |-> 0], Writer |-> [limiter |-> 0]]

LinkInit == [called |-> FALSE, n |-> 0, detect |-> FALSE, reject |-> FALSE, bucket |-> 0, handed |-> FALSE,
             Reader |-> PlainLink.Reader, Writer |-> PlainLink.Writer]

\* dataPathWrapper.Dispatch after the same-node step, on the limiter L: the
\* session has a user (hasUser) with Email email, source srcIP, target
\* destStr (both "" without outbounds); hit is the answer Detect gives
DispatchPolicy(L, tag, hasUser, email, srcIP, destStr, hit) ==
    LET detect == hasUser /\ email # <<>> /\ destStr # "" /\ hit
        asks == hasUser /\ ~detect /\ email # <<>>
        got == IF asks THEN GetUserBucketOn(L, tag, email, srcIP) ELSE [L |-> L, res |-> NoRes]
        reject == got.res.Reject
        wraps == asks /\ ~reject /\ got.res.SpeedLimit /\ got.res.limiter # 0
    IN [L |-> got.L, res |-> got.res, detect |-> detect, reject |-> reject,
        bucket |-> IF reject THEN 0 ELSE got.res.limiter,
        handed |-> ~detect /\ ~reject,
        Reader |-> IF wraps THEN RateReader(PlainLink.Reader, got.res.limiter)
                   ELSE PlainLink.Reader,
        Writer |-> IF wraps THEN RateWriter(PlainLink.Writer, got.res.limiter)
                   ELSE PlainLink.Writer]

\* the core hands a link whose inbound tag is tag to the wrapper with that tag
DispatchHere(tag, hasUser, email, srcIP, destStr, hit) ==
    LET real == DispatchPolicy(lt.real, tag, hasUser, email, srcIP, destStr, hit)
        shadow == DispatchPolicy(lt.shadow, tag, hasUser, email, srcIP, destStr, hit)
    IN /\ lt' = IF tag = T2
                THEN [real |-> real.L, shadow |-> shadow.L,
                      out |-> [real |-> real.res, shadow |-> shadow.res]]
                ELSE [lt EXCEPT !.real = real.L]
       /\ link' = [called |-> TRUE, n |-> 1 - link.n, detect |-> real.detect, reject |-> real.reject,
                   bucket |-> real.bucket, handed |-> real.handed,
                   Reader |-> real.Reader, Writer |-> real.Writer]
       /\ UNCHANGED <<config, synced, mu, tl, shared, gl, reloaded, elapsed, sessions, lim, dp, ph, fw, dr, polled,
                      serviceTag, svcVars, ruleVars, nodeVars, connVars, um, procVars, reported,
                      histVars>>

\* ---------------------------------------------------------------- LogTraffic and the service mutex
\* LogTraffic step by step, for the threads of the core that call it.  mu is
\* "free" or the thread that holds t.svc.mu; tl[t] is where thread t is in
\* its call (idle, locked: after mu.Lock(), WaitN: inside limiter.WaitN) and
\* the limiter it read from rateLimiters (0 is nil).

LogThreads == {"w1", "w2"}

IdleLog == [pc |-> "idle", id |-> "", tx |-> 0, rx |-> 0, limiter |-> 0]

LogFrame ==
    UNCHANGED <<config, synced, shared, gl, link, reloaded, elapsed, sessions, lim, extVars, serviceTag,
                users, onlineIPs, ipLastActive, rateLimiters, limiters, ruleVars, nodeVars,
                connVars, um, procVars, reported, phase, offending, owed, reloadFailed>>

MuAfterBody_Held(t) == t

\* the t.svc.mu.Unlock() that precedes the WaitN of LogTraffic
MuAfterBody(t) == "free"

\* LogTraffic(id, tx, rx) on thread t: t.svc.mu.Lock()
LogTrafficLock(t, id, tx, rx) ==
    /\ tl[t].pc = "idle"
    /\ id # ""
    /\ mu = "free"
    /\ observed + tx + rx <= MaxBytes
    /\ mu' = t
    /\ tl' = [tl EXCEPT ![t] = [pc |-> "locked", id |-> id, tx |-> tx, rx |-> rx, limiter |-> 0]]
    /\ UNCHANGED <<blockedIDs, traffic, observed, counted>>
    /\ LogFrame

\* LogTraffic on thread t from the blocked check to the Unlock of its path;
\* the path that counts goes on to limiter.WaitN when it read a limiter and
\* tx + rx > 0
LogTrafficBody(t) ==
    /\ tl[t].pc = "locked"
    /\ LET w == tl[t]
           limiter == IF w.id \in DOMAIN rateLimiters THEN rateLimiters[w.id] ELSE 0
       IN /\ observed' = observed + w.tx + w.rx
          /\ IF ~LogTrafficOk(w.id)
             THEN /\ blockedIDs' = ConsumeBlocked(w.id)
                  /\ mu' = "free"
                  /\ tl' = [tl EXCEPT ![t] = IdleLog]
                  /\ UNCHANGED <<traffic, counted>>
             ELSE IF ~LogTrafficCounts(w.id)
             THEN /\ mu' = "free"
                  /\ tl' = [tl EXCEPT ![t] = IdleLog]
                  /\ UNCHANGED <<blockedIDs, traffic, counted>>
             ELSE /\ traffic' = Put(traffic, w.id, AddTraffic(HeldOf(traffic, w.id), w.tx, w.rx))
                  /\ counted' = [counted EXCEPT ![w.id] = AddTraffic(@, w.tx, w.rx)]
                  /\ mu' = MuAfterBody(t)
                  /\ tl' = [tl EXCEPT ![t] = IF limiter # 0 /\ w.tx + w.rx > 0
                                             THEN [w EXCEPT !.pc = "WaitN", !.limiter = limiter]
                                             ELSE IdleLog]
                  /\ UNCHANGED blockedIDs
    /\ LogFrame

\* limiter.WaitN returns on thread t, and LogTraffic returns true
LogTrafficWaitN(t) ==
    /\ tl[t].pc = "WaitN"
    /\ tl' = [tl EXCEPT ![t] = IdleLog]
    /\ UNCHANGED <<mu, blockedIDs, traffic, observed, counted>>
    /\ LogFrame

\* ---------------------------------------------------------------- TUIC node monitor
\* In the TUIC specification the service variables (nodeInfo, users, traffic,
\* rateLimiters, server, tasks, serviceTag, reloadMu) stand for the fields of
\* the same names of TuicService (server for its box); polled is the NodeInfo
\* the panel's GetNodeInfo returned last.

\* api.NodeInfo.TuicConfig: a nil pointer, and &api.TuicConfig{}
NilTuicConfig == [nil |-> TRUE, CongestionControl |-> ""]
ZeroTuicConfig == [nil |-> FALSE, CongestionControl |-> ""]

\* api.NodeInfo values of TUIC nodes: without and with a TuicConfig
NodeU == [NodeType |-> "Tuic", Port |-> 5, NodeID |-> 1, SpeedLimit |-> 0,
          EnableTLS |-> TRUE, TuicConfig |-> NilTuicConfig]
NodeUC == [NodeU EXCEPT !.TuicConfig = [nil |-> FALSE, CongestionControl |-> "bbr"]]
NodeU7 == [NodeUC EXCEPT !.Port = 7]
NodeU0 == [NodeUC EXCEPT !.Port = 0]

\* if nodeInfo.TuicConfig == nil { nodeInfo.TuicConfig = &api.TuicConfig{} }
withTuicConfig(n) ==
    IF n.TuicConfig.nil THEN [n EXCEPT !.TuicConfig = ZeroTuicConfig] ELSE n

\* TuicService.Start(): GetNodeInfo answers n, GetUserList answers list,
\* GetNodeRule answers ruleAnswer
TuicStart(n, list, ruleAnswer, ruleList) ==
    /\ nodeInfo = NoNode
    /\ n.NodeType = "Tuic"
    /\ n.Port # 0
    /\ polled' = n
    /\ nodeInfo' = withTuicConfig(n)
    /\ serviceTag' = TagOf(n)
    /\ syncUsersWith(SyncLoop(list, n.SpeedLimit,
           [users |-> EmptyMap, rl |-> EmptyMap, objs |-> limiters, traffic |-> traffic]))
    /\ IF ~config.DisableGetRule /\ ruleAnswer = "ok" /\ Len(ruleList) > 0
       THEN rules' = ruleList
       ELSE UNCHANGED rules
    /\ server' = "running"
    /\ tasks' = "running"
    /\ UNCHANGED <<config, hubVars, elapsed, sessions, lim, dp, ph, fw, dr, lt, blockedIDs, detectResults,
                   portHopRules, reloadMu, natTable, connVars, um, procVars, reported, histVars>>

\* TuicService.nodeMonitor up to the call of reloadNode and through its
\* parameter checks: GetNodeInfo answers "ok" with n, "notModified" or "error"
TuicNodeMonitorFetch(answer, n) ==
    /\ tasks = "running"
    /\ pc["node"] = "idle"
    /\ polled' = IF ~BootDelay /\ answer = "ok" THEN n ELSE polled
    /\ IF /\ ~BootDelay
          /\ answer = "ok"
          /\ n.NodeType = "Tuic"
          /\ NodeChanged(n)
          /\ n.Port # 0
       THEN /\ pc' = [pc EXCEPT !["node"] = "lock"]
            /\ arg' = [arg EXCEPT !["node"] = withTuicConfig(n)]
       ELSE UNCHANGED <<pc, arg>>
    /\ UNCHANGED <<config, hubVars, elapsed, sessions, lim, dp, ph, fw, dr, lt, serviceTag, svcVars, ruleVars,
                   nodeVars, connVars, um, closePc, reported, histVars>>

\* TuicService.reloadNode from s.reloadMu.Lock() to its return: the old box is
\* closed, buildSingBox succeeds (ok) or fails
TuicReload(ok) ==
    /\ pc["node"] = "lock"
    /\ CanLock
    /\ nodeInfo' = arg["node"]
    /\ server' = IF ok THEN "running" ELSE "nil"
    /\ pc' = [pc EXCEPT !["node"] = "idle"]
    /\ arg' = [arg EXCEPT !["node"] = NoNode]
    /\ UNCHANGED <<config, hubVars, elapsed, sessions, lim, extVars, serviceTag, svcVars, ruleVars, tasks,
                   portHopRules, reloadMu, natTable, connVars, um, closePc, reported, histVars>>

\* ---------------------------------------------------------------- Init

Configs ==
    {[DisableUploadTraffic |-> FALSE, DisableGetRule |-> FALSE, CertMode |-> "dns",
      ListenIP |-> "0.0.0.0"],
     [DisableUploadTraffic |-> TRUE, DisableGetRule |-> TRUE, CertMode |-> "file",
      ListenIP |-> "0.0.0.0"]}

Procs == {"node", "cert"}

\* New(apiClient, cfg)
Init ==
    /\ config \in Configs
    /\ elapsed = FALSE
    /\ sessions = {}
    /\ serviceTag = NoTag
    /\ lim = LimInit
    /\ dp = DpInit
    /\ ph = PhInit
    /\ fw = FwInit
    /\ dr = DrInit
    /\ lt = LtInit
    /\ shared = SharedInit
    /\ gl = GlInit
    /\ link = LinkInit
    /\ reloaded = FALSE
    /\ mu = "free"
    /\ tl = [t \in LogThreads |-> IdleLog]
    /\ synced = [called |-> FALSE, list |-> <<>>, n |-> 0]
    /\ polled = NoNode
    /\ nodeInfo = NoNode
    /\ server = "nil"
    /\ tasks = "nil"
    /\ portHopRules = <<>>
    /\ reloadMu = "free"
    /\ users = EmptyMap
    /\ traffic = EmptyMap
    /\ onlineIPs = EmptyMap
    /\ ipLastActive = EmptyMap
    /\ blockedIDs = {}
    /\ rateLimiters = EmptyMap
    /\ limiters = EmptyMap
    /\ rules = <<>>
    /\ detectResults = {}
    /\ natTable = <<>>
    /\ conns = {}
    /\ closing = {}
    /\ req = NoReq
    /\ um = IdleUM
    /\ pc = [p \in Procs |-> "idle"]
    /\ arg = [p \in Procs |-> NoNode]
    /\ closePc = "idle"
    /\ reported = ZeroAll
    /\ observed = 0
    /\ counted = ZeroAll
    /\ phase = [k \in Keys |-> "none"]
    /\ offending = {}
    /\ owed = {}
    /\ reloadFailed = FALSE

\* ---------------------------------------------------------------- traffic accounting

TrafficLists == {<<>>, <<UserA0>>, <<UserA0, UserB>>}
TrafficIPs == {"ip1"}

NextTraffic ==
    \/ \E list \in TrafficLists : Start(NodeA, list, "ok", <<>>)
    \/ \E ip \in TrafficIPs, auth \in Keys : Authenticate(ip, auth)
    \/ \E c \in conns, b \in TxRx : LogTraffic(c, b[1], b[2])
    \/ \E list \in TrafficLists : UserMonitorFetch("ok", list)
    \/ UserMonitorFetch("notModified", <<>>)
    \/ UserMonitorFetch("error", <<>>)
    \/ UserMonitorRules("notModified", <<>>)
    \/ UserMonitorCollect
    \/ \E ok \in BOOLEAN : UserMonitorReport(ok)
    \/ Tick

SpecTraffic == Init /\ [][NextTraffic]_vars

\* fairness of the traffic accounting: the periodic task keeps running
\* userMonitor, GetUserList eventually answers, and a ReportUserTraffic that
\* is called again and again eventually succeeds
FairTraffic ==
    /\ WF_vars(Tick)
    /\ WF_vars((\E list \in TrafficLists : UserMonitorFetch("ok", list))
               \/ UserMonitorFetch("notModified", <<>>))
    /\ WF_vars(UserMonitorRules("notModified", <<>>))
    /\ WF_vars(UserMonitorCollect)
    /\ WF_vars(\E ok \in BOOLEAN : UserMonitorReport(ok))
    /\ SF_vars(UserMonitorReport(TRUE) /\ ReportCalled)

SpecTrafficFair == SpecTraffic /\ FairTraffic

Bytes(t) == t.Upload + t.Download

RECURSIVE SumBytes(_, _)
SumBytes(S, f) ==
    IF S = {} THEN 0
    ELSE LET k == CHOOSE x \in S : TRUE
         IN Bytes(f[k]) + SumBytes(S \ {k}, f)

BetweenCycles == um.pc = "idle" /\ ~config.DisableUploadTraffic

\* C1 as stated: between report cycles, the bytes of the successful
\* ReportUserTraffic calls plus the bytes held in the traffic counters equal
\* all the bytes that were passed to LogTraffic.
C1_Original ==
    BetweenCycles =>
        SumBytes(Keys, reported) + SumBytes(DOMAIN traffic, traffic) = observed

\* the snapshot a report cycle holds between collectUsage and the return
\* of ReportUserTraffic
InFlight(k) == IF um.pc = "report" THEN HeldOf(um.snapshot, k) ELSE ZeroTraffic

\* C1 amended: with uploading enabled, at every instant, per auth key and
\* per direction, the bytes of the successful ReportUserTraffic calls plus
\* the bytes held in the key's counter plus the bytes of a snapshot in
\* flight equal the bytes LogTraffic added to that counter, i.e. the bytes of
\* the calls whose id was a key of the users map and not flagged blocked.
C1_Conservation ==
    ~config.DisableUploadTraffic =>
        \A k \in Keys :
            AddTraffic(AddTraffic(reported[k], HeldOf(traffic, k).Upload,
                                  HeldOf(traffic, k).Download),
                       InFlight(k).Upload, InFlight(k).Download)
                = counted[k]

\* a failed report restored a snapshot, another key was reported, and both
\* counters and reports hold bytes
C1_Witness ==
    /\ BetweenCycles
    /\ owed # {}
    /\ \E k \in Keys : Bytes(reported[k]) > 0
    /\ \E k \in DOMAIN traffic : Bytes(traffic[k]) > 0

\* C2 as stated: every byte LogTraffic added to a user's counter is
\* eventually part of a successful ReportUserTraffic (uploading enabled,
\* reports eventually succeed), whatever the panel's user lists are.
C2_Original ==
    \A k \in Keys : \A n \in 1..MaxBytes :
        (~config.DisableUploadTraffic /\ Bytes(counted[k]) >= n)
            ~> (Bytes(reported[k]) >= n)

\* C3 as stated, part (b): a ReportUserTraffic that succeeds after a failed
\* one delivers, for every auth key of the restored snapshot, all the bytes
\* counted for the key up to this cycle's collectUsage (the restored
\* snapshot plus the bytes logged since).
C3_Original ==
    [][(UserMonitorReport(TRUE) /\ ReportCalled) =>
          \A k \in owed : reported'[k] = um.base[k]]_vars

\* ---------------------------------------------------------------- device limit

DeviceLists == {<<>>, <<UserA2>>, <<UserA2, UserB>>}
DeviceAuths == {"a", "b", ""}
\* the (remote host, auth string) pairs presented to Authenticate
DeviceLogins == (IPs \X {"a"}) \cup ({"ip2"} \X {"b", ""})
\* the connection whose requests are followed
DeviceRequester == Conn("ip1", "a")

NextDevice ==
    \/ \E list \in DeviceLists : Start(NodeA, list, "ok", <<>>)
    \/ \E l \in DeviceLogins : Authenticate(l[1], l[2])
    \/ TCPRequest(DeviceRequester, "ok")
    \/ RequestOnline
    \/ auditRequest
    \/ \E c \in conns : Disconnect(c)
    \/ \E list \in DeviceLists : UserMonitorFetch("ok", list)
    \/ UserMonitorFetch("notModified", <<>>)
    \/ UserMonitorRules("notModified", <<>>)
    \/ UserMonitorCollect
    \/ UserMonitorReport(TRUE)
    \/ Tick

SpecDevice == Init /\ [][NextDevice]_vars

OnlineOf(m, k) == IF k \in DOMAIN m THEN m[k] ELSE {}

\* C4 as stated: for every user with DeviceLimit D > 0, at most D distinct
\* remote IPs hold an admitted and not yet disconnected session, and the
\* user's online-IP set has at most D members.
C4_Original ==
    \A k \in DOMAIN users :
        users[k].DeviceLimit > 0 =>
            /\ Cardinality({c.ip : c \in {x \in conns : x.id = k}}) <= users[k].DeviceLimit
            /\ Cardinality(OnlineOf(onlineIPs, k)) <= users[k].DeviceLimit

\* the decision C5 states for Authenticate(addr, auth)
C5_Accepts(ip, auth) ==
    /\ auth # ""
    /\ auth \in DOMAIN users
    /\ \/ ip \in OnlineOf(onlineIPs, auth)
       \/ users[auth].DeviceLimit = 0
       \/ Cardinality(OnlineOf(onlineIPs, auth)) < users[auth].DeviceLimit

AuditLists == {<<>>, <<UserA0>>}
AuditRules == <<[ID |-> 1, Pattern |-> "ads"]>>
AuditIPs == {"ip1", "ip2"}
AuditDests == {"ads", "ok"}
\* the connection whose requests are followed
AuditRequester == Conn("ip1", "a")

NextAudit ==
    \/ \E list \in AuditLists : Start(NodeA, list, "ok", AuditRules)
    \/ \E ip \in AuditIPs : Authenticate(ip, "a")
    \/ \E dest \in AuditDests : TCPRequest(AuditRequester, dest)
    \/ UDPRequest(AuditRequester, "")
    \/ RequestOnline
    \/ auditRequest
    \/ \E c \in conns : LogTraffic(c, 1, 0)
    \/ \E c \in conns \cup closing : Disconnect(c)
    \/ \E list \in AuditLists : UserMonitorFetch("ok", list)
    \/ UserMonitorFetch("notModified", <<>>)
    \/ UserMonitorRules("notModified", <<>>)
    \/ UserMonitorCollect
    \/ UserMonitorReport(TRUE)
    \/ Tick

SpecAudit == Init /\ [][NextAudit]_vars

\* C6: after an audit hit for a connection id, the first later LogTraffic
\* call with that id returns false, adds nothing to any traffic counter and
\* clears the flag; the LogTraffic call after that for the same id returns
\* true unless a new audit hit occurred in between.
C6_FlagConsumedOnce ==
    [][\A c \in conns :
          LogTraffic(c, 1, 0) =>
              /\ phase[c.id] = "flagged" =>
                     /\ ~LogTrafficOk(c.id)
                     /\ traffic' = traffic
                     /\ c.id \notin blockedIDs'
              /\ phase[c.id] = "consumed" => LogTrafficOk(c.id)]_vars

\* the flag of "a" was consumed by a call that returned false, and the call
\* after it was counted
C6_Witness ==
    /\ phase["a"] = "after"
    /\ Bytes(counted["a"]) > 0
    /\ "a" \notin blockedIDs

\* C7 as stated: the connection whose request matched an audit rule is the
\* one terminated, i.e. its next LogTraffic call returns false.
C7_Original ==
    [][\A c \in conns :
          (LogTraffic(c, 1, 0) /\ c \in offending) => ~LogTrafficOk(c.id)]_vars

\* ---------------------------------------------------------------- lifecycle

NextReload ==
    \/ \E n \in {NodeA, NodeB} : Start(n, <<UserA0>>, "ok", <<>>)
    \/ \E n \in NodeInfos : NodeMonitorFetch("ok", n)
    \/ NodeMonitorFetch("notModified", NoNode)
    \/ NodeMonitorFetch("error", NoNode)
    \/ \E renewed \in BOOLEAN : CertMonitor(renewed)
    \/ \E p \in Procs : ReloadLock(p)
    \/ \E p \in Procs : ReloadSwap(p)
    \/ \E p \in Procs : ReloadCloseOld(p)
    \/ \E p \in Procs, ok \in BOOLEAN : ReloadBuild(p, ok)
    \/ CloseCall
    \/ CloseLock
    \/ CloseRules
    \/ CloseTasks
    \/ CloseServer
    \/ Tick

SpecReload == Init /\ [][NextReload]_vars

\* C8 as stated: after reloadNode failed to build the new server (the old
\* one closed), a nodeMonitor cycle in which the panel returns that same
\* NodeInfo calls reloadNode again.
C8_Original ==
    (/\ reloadFailed
     /\ server = "nil"
     /\ tasks = "running"
     /\ pc["node"] = "idle")
        => ENABLED (NodeMonitorFetch("ok", nodeInfo) /\ pc'["node"] = "lock")

\* C9 as stated: once Close has returned, no embedded server is running and
\* no port-hop rule of the service is installed, whatever monitor execution
\* was in flight.
C9_Original ==
    closePc = "returned" =>
        /\ server # "running"
        /\ portHopRules = <<>>
        /\ natTable = <<>>

InRebuild(p) == pc[p] \in {"swap", "close", "build"}
InCloseRules == closePc = "rules"

\* C10: at no time do two executions of reloadNode's rebuild section (by
\* nodeMonitor or certMonitor) or of Close's rule removal overlap, and the
\* one that executes holds reloadMu.
C10_Serialized ==
    /\ Cardinality({p \in Procs : InRebuild(p)}) + (IF InCloseRules THEN 1 ELSE 0) <= 1
    /\ \A p \in Procs : InRebuild(p) => reloadMu = p
    /\ InCloseRules => reloadMu = "close"

\* nodeMonitor is inside the rebuild section while certMonitor's reload and
\* Close both wait for reloadMu
C10_Witness ==
    /\ InRebuild("node")
    /\ pc["cert"] = "lock"
    /\ closePc = "lock"

NodeAnswers == {"ok", "notModified", "error"}

\* C11: nodeMonitor calls reloadNode only when the fetch succeeded, the node
\* type matches and the fetched NodeInfo differs from the current one; on
\* "node not modified", on another fetch error and on a deep-equal NodeInfo
\* it leaves nodeInfo, the embedded server and the port-hop rules unchanged
\* and calls nothing.
C11_NodeMonitor ==
    [][\A answer \in NodeAnswers, n \in NodeInfos \cup {NoNode} :
          NodeMonitorFetch(answer, n) =>
              /\ pc'["node"] = "lock" =>
                     /\ answer = "ok"
                     /\ n.NodeType = "Hysteria2"
                     /\ n # nodeInfo
              /\ (answer # "ok" \/ n = nodeInfo) =>
                     /\ pc' = pc
                     /\ nodeInfo' = nodeInfo
                     /\ server' = server
                     /\ portHopRules' = portHopRules
                     /\ natTable' = natTable]_vars

\* nodeMonitor fetched NodeB while NodeA is current and called reloadNode
C11_Witness ==
    /\ pc["node"] = "lock"
    /\ arg["node"] = NodeB
    /\ nodeInfo = NodeA
    /\ server = "running"

\* C12 as stated: before one UpdatePeriodic interval has elapsed since
\* startAt, no periodic task (userMonitor, nodeMonitor, certMonitor) leaves
\* its idle state: an execution triggered earlier returns without effect.
C12_Original ==
    [][~elapsed => (pc' = pc /\ um' = um)]_vars

\* ---------------------------------------------------------------- speed limit

SpeedNodes == {NodeA, NodeS}
SpeedLists == {<<UserS>>, <<UserS, UserB>>}

NextSpeed ==
    \/ \E n \in SpeedNodes, list \in SpeedLists : Start(n, list, "ok", <<>>)
    \/ Tick
    \/ \E n \in SpeedNodes : NodeMonitorFetch("ok", n)
    \/ \E p \in Procs : ReloadLock(p)
    \/ \E p \in Procs : ReloadSwap(p)
    \/ \E p \in Procs : ReloadCloseOld(p)
    \/ \E p \in Procs, ok \in BOOLEAN : ReloadBuild(p, ok)
    \/ \E list \in SpeedLists : UserMonitorFetch("ok", list)
    \/ UserMonitorFetch("notModified", <<>>)
    \/ UserMonitorRules("notModified", <<>>)
    \/ UserMonitorCollect
    \/ UserMonitorReport(TRUE)

SpecSpeed == Init /\ [][NextSpeed]_vars

\* the limiter attached to key k is exactly the one the limits l call for
LimiterMatches(k, l) ==
    /\ (k \in DOMAIN rateLimiters) <=> (l > 0)
    /\ l > 0 => limiters[rateLimiters[k]] = [limit |-> l, burst |-> l]

\* C13 as stated: after Start, with no reload in progress, every auth key of
\* the users map has a rate limiter attached iff determineRate(current
\* nodeInfo.SpeedLimit, user SpeedLimit) > 0, and then its rate and burst both
\* equal that value.
C13_Original ==
    (nodeInfo # NoNode /\ \A p \in Procs : pc[p] = "idle") =>
        \A k \in DOMAIN users :
            LimiterMatches(k, determineRate(nodeInfo.SpeedLimit, users[k].SpeedLimit))

\* ---------------------------------------------------------------- AnyTLS speed limit

AnyTLSNodes == {NodeT, NodeTS}
AnyTLSLists == {<<UserS>>, <<UserS, UserB>>}
AnyTLSUsers == {"a", "b"}
AnyTLSDests == {"ads", "ok"}

NextAnyTLS ==
    \/ \E n \in AnyTLSNodes, list \in AnyTLSLists : AnyTLSStart(n, list, "ok", AuditRules)
    \/ Tick
    \/ \E list \in AnyTLSLists : AnyTLSSync(list)
    \/ \E user \in AnyTLSUsers, dest \in AnyTLSDests : RoutedConnection(user, "ip1", dest)
    \/ \E c \in sessions : ConnRead(c)
    \/ \E c \in sessions : ConnWrite(c)
    \/ \E c \in sessions : ConnClose(c)

SpecAnyTLS == Init /\ [][NextAnyTLS]_vars

\* C14 as stated: every admitted AnyTLS TCP session of a user who has a rate
\* limiter in rateLimiters waits on that limiter for the bytes of each Read
\* and Write.
C14_Original ==
    [][\A c \in sessions :
          ((ConnRead(c) \/ ConnWrite(c)) /\ c.user \in DOMAIN rateLimiters) =>
              /\ ConnWaits(c)
              /\ c.limiter = rateLimiters[c.user]]_vars

\* ---------------------------------------------------------------- limiter device limit

\* the addresses each caller connects from
GubIPs == [p \in GubProcs |-> IF p = "g1" THEN {"ip1", "ip2"} ELSE {"ip2", "ip3"}]

NextLimiter ==
    \/ \E p \in GubProcs : \E ip \in GubIPs[p] : GubLoadOuter(p, ip)
    \/ \E p \in GubProcs : GubLoadInner(p)
    \/ \E p \in GubProcs : GubRangeStart(p)
    \/ \E p \in GubProcs, counter \in 0..Cardinality(IPs) : GubRangeEnd(p, counter)
    \/ \E p \in GubProcs : GubCheck(p)
    \/ GodRangeStart
    \/ \E seen \in SUBSET IPs : GodRangeEnd(seen)
    \/ GodDelete

SpecLimiter == Init /\ [][NextLimiter]_vars

Quiescent == \A p \in GubProcs : lim.gub[p].pc = "idle"

\* C15: a GetUserBucket call is rejected by the local check only for an IP
\* it newly inserted; a call that newly inserted its IP and counted the
\* submap as it still is at the test is rejected exactly when the submap
\* holds more than DeviceLimit IPs, and a rejected call's IP is removed; and
\* whenever no GetUserBucket call is in progress the submap registered for
\* the user holds at most DeviceLimit IPs, under every interleaving with
\* other GetUserBucket calls and GetOnlineDevice.
C15_LocalDeviceLimit ==
    /\ [](\A p \in GubProcs : lim.gub[p].result = "reject" => lim.gub[p].fresh)
    /\ [][\A p \in GubProcs :
             GubCheck(p) =>
                 LET g == lim.gub[p]
                 IN /\ g.counter = Cardinality(lim.ipMaps[g.m]) =>
                          (lim'.gub[p].result = "reject" <=>
                               Cardinality(lim.ipMaps[g.m]) > LimUser.DeviceLimit)
                    /\ lim'.gub[p].result = "reject" => g.ip \notin lim'.ipMaps[g.m]]_vars
    /\ []((Quiescent /\ lim.UserOnlineIP # 0) =>
              Cardinality(lim.ipMaps[lim.UserOnlineIP]) <= LimUser.DeviceLimit)

C15_Witness ==
    /\ Quiescent
    /\ lim.god.pc = "ranged"
    /\ lim.UserOnlineIP # 0
    /\ Cardinality(lim.ipMaps[lim.UserOnlineIP]) = LimUser.DeviceLimit
    /\ \E p \in GubProcs : lim.gub[p].result = "reject" /\ lim.gub[p].fresh

\* ---------------------------------------------------------------- same-node routing

DpTags == {<<"VLESS_", "n1">>, <<"Trojan_", "n2">>, <<"socks_", "x">>}

InTags == DpTags \cup {<<>>, <<"Vmess_", "n3">>}

NextDataPath ==
    \/ \E t \in DpTags : addOutbound(t)
    \/ \E t \in DpTags : removeOutbound(t)
    \/ \E t \in DpTags, inTag \in InTags, hasSess, hit, reject \in BOOLEAN :
           Dispatch(t, inTag, hasSess, hit, reject)

SpecDataPath == Init /\ [][NextDataPath]_vars

\* C16: a link whose inbound tag has a managed prefix is processed by the
\* handler wrapped under exactly that tag, or it is closed and no handler
\* gets it; and no Dispatch redispatches more than once.
C16_SameNode ==
    /\ dp.last.out.hops <= 1
    /\ (dp.last.sess /\ isXrayRManagedTag(dp.last.inTag)) =>
           \/ dp.last.out.closed /\ dp.last.out.handler = NoHandler
           \/ ~dp.last.out.closed /\ dp.last.out.handler = Wrapper(dp.last.inTag).Handler

C16_Witness ==
    /\ dp.last.sess
    /\ isXrayRManagedTag(dp.last.inTag)
    /\ dp.last.via # dp.last.inTag
    /\ dp.last.out.hops = 1
    /\ ~dp.last.out.closed
    /\ dp.last.out.handler = Wrapper(dp.last.inTag).Handler

\* ---------------------------------------------------------------- port-hop rule generation

BasePorts == {1, 30000, MaxPort}

PortVals == {0, 1, 30000, 30001, MaxPort, MaxPort + 1}

PortParts ==
    {<<Num(a)>> : a \in PortVals}
        \cup {<<Num(a), Dash, Num(b)>> : a, b \in PortVals}
        \cup {<<Junk>>, <<Dash, Num(1)>>, <<Num(1), Dash>>, <<Num(1), Dash, Junk>>,
              <<Num(30001), Dash, Dash, Num(1)>>, <<Num(30001), Dash, Num(1), Dash, Num(2)>>}

Example1 == <<<<Num(30000), Dash, Num(50000)>>, <<Num(60000)>>>>

Example2 == <<<<Num(10000), Dash, Num(20000)>>>>

PortExprs ==
    UNION {[1..n -> PortParts] : n \in 0..MaxParts} \cup {Example1, Example2}

NextPortHop == ~ph.called /\ \E bp \in BasePorts, parts \in PortExprs : BuildRules(bp, parts)

SpecPortHop == Init /\ [][NextPortHop]_vars

\* the range a part denotes when it is a number or number-number
PartRange(part) ==
    IF Len(part) = 1 /\ part[1].k = "num" THEN <<part[1].v, part[1].v>>
    ELSE IF Len(part) = 3 /\ part[1].k = "num" /\ part[2] = Dash /\ part[3].k = "num"
    THEN <<part[1].v, part[3].v>>
    ELSE <<0, 0>>

ValidPart(part) == \A i \in 1..2 : PartRange(part)[i] >= 1 /\ PartRange(part)[i] <= 65535

RECURSIVE PortsIn(_)
PortsIn(rs) ==
    IF rs = <<>> THEN 0
    ELSE Head(rs).FromPortEnd - Head(rs).FromPortStart + 1 + PortsIn(Tail(rs))

\* the ranges of rs are well formed, lie in lo..hi, avoid bp, do not overlap
\* and together hold every port of lo..hi but bp
ExactCover(rs, bp, lo, hi) ==
    /\ \A i \in 1..Len(rs) :
           /\ rs[i].ToPort = bp
           /\ 1 <= rs[i].FromPortStart /\ rs[i].FromPortStart <= rs[i].FromPortEnd
           /\ rs[i].FromPortEnd <= 65535
           /\ lo <= rs[i].FromPortStart /\ rs[i].FromPortEnd <= hi
           /\ ~(rs[i].FromPortStart <= bp /\ bp <= rs[i].FromPortEnd)
    /\ \A i, j \in 1..Len(rs) : i < j => rs[i].FromPortEnd < rs[j].FromPortStart
    /\ PortsIn(rs) = hi - lo + 1 - (IF lo <= bp /\ bp <= hi THEN 1 ELSE 0)

RECURSIVE RulesPerPart(_, _)
RulesPerPart(bp, parts) ==
    IF parts = <<>> THEN <<>>
    ELSE buildPortHopRulesOf(bp, <<Head(parts)>>) \o RulesPerPart(bp, Tail(parts))

\* C17: the rules of an expression are the rules of its parts, in order; a
\* valid part yields well-formed rules to the base port that cover exactly
\* its ports except the base port, an invalid part yields none; and the two
\* examples with base 30000 give the stated rules.
C17_PortHopRules ==
    ph.called =>
        /\ ph.rules = RulesPerPart(ph.bp, ph.expr)
        /\ \A i \in 1..Len(ph.expr) :
               LET out == buildPortHopRulesOf(ph.bp, <<ph.expr[i]>>)
                   r == PartRange(ph.expr[i])
               IN IF ValidPart(ph.expr[i])
                  THEN ExactCover(out, ph.bp, IF r[1] < r[2] THEN r[1] ELSE r[2],
                                  IF r[1] < r[2] THEN r[2] ELSE r[1])
                  ELSE out = <<>>
        /\ (ph.bp = 30000 /\ ph.expr = Example1) =>
               ph.rules = <<[FromPortStart |-> 30001, FromPortEnd |-> 50000, ToPort |-> 30000],
                            [FromPortStart |-> 60000, FromPortEnd |-> 60000, ToPort |-> 30000]>>
        /\ (ph.bp = 30000 /\ ph.expr = Example2) =>
               ph.rules = <<[FromPortStart |-> 10000, FromPortEnd |-> 20000, ToPort |-> 30000]>>

C17_Witness ==
    /\ ph.called
    /\ ph.bp = 30000
    /\ ph.expr = <<<<Junk>>, <<Num(MaxPort), Dash, Num(1)>>>>
    /\ ph.rules = <<[FromPortStart |-> 1, FromPortEnd |-> 29999, ToPort |-> 30000],
                    [FromPortStart |-> 30001, FromPortEnd |-> MaxPort, ToPort |-> 30000]>>

\* ---------------------------------------------------------------- firewall round trip

ForeignRules ==
    {[FromPortStart |-> 4, FromPortEnd |-> 4, ToPort |-> 5],
     [FromPortStart |-> 8, FromPortEnd |-> 8, ToPort |-> 7]}

NextFirewall ==
    \/ \E r \in ForeignRules : ForeignRule(r)
    \/ IptablesBreak
    \/ IptablesRepair
    \/ \E n \in {NodeA, NodeB} : Start(n, <<UserA0>>, "ok", <<>>)
    \/ Tick
    \/ \E n \in {NodeA, NodeB} : NodeMonitorFetch("ok", n)
    \/ \E p \in Procs : ReloadLock(p)
    \/ \E p \in Procs : ReloadSwap(p)
    \/ \E p \in Procs : ReloadCloseOld(p)
    \/ \E p \in Procs : ReloadBuild(p, TRUE)
    \/ CloseCall
    \/ CloseLock
    \/ CloseRules
    \/ CloseTasks
    \/ CloseServer

SpecFirewall == Init /\ [][NextFirewall]_vars

\* how often each rule occurs in a table
TableBag(table) ==
    [r \in {table[i] : i \in 1..Len(table)} |->
        Cardinality({i \in 1..Len(table) : table[i] = r})]

\* C18 as stated: whenever the service tracks no installed rules (before
\* Start, after a refresh to an empty rule set, after Close) the NAT table
\* holds what it held before the installation: the rules of the other
\* parties, each as often as they put it.
C18_Original ==
    (portHopRules = <<>> /\ \A p \in Procs : pc[p] = "idle") =>
        TableBag(natTable) = TableBag(fw.foreign)

\* ---------------------------------------------------------------- determineRate

RateVals == (0..MaxRate) \cup {50, 100}

NextRate == \E nodeLimit, userLimit \in RateVals : DetermineRates(nodeLimit, userLimit)

SpecRate == Init /\ [][NextRate]_vars

\* C19: every copy of determineRate returns 0 when both limits are 0, the
\* non-zero limit when exactly one is 0, and the smaller limit otherwise;
\* so the four copies agree, and the five stated values are returned.
C19_DetermineRate ==
    dr.called =>
        LET n == dr.nodeLimit
            u == dr.userLimit
            expected == IF n = 0 /\ u = 0 THEN 0
                        ELSE IF n = 0 THEN u
                        ELSE IF u = 0 THEN n
                        ELSE IF n <= u THEN n ELSE u
        IN /\ dr.limiter = expected
           /\ dr.hysteria2 = expected
           /\ dr.tuic = expected
           /\ dr.anytls = expected
           /\ (n = 0 /\ u = 0) => dr.limiter = 0
           /\ (n = 100 /\ u = 0) => dr.limiter = 100
           /\ (n = 0 /\ u = 50) => dr.limiter = 50
           /\ (n = 100 /\ u = 50) => dr.limiter = 50
           /\ (n = 50 /\ u = 100) => dr.limiter = 50

C19_Witness ==
    /\ dr.called
    /\ dr.nodeLimit = 100
    /\ dr.userLimit = 50
    /\ dr.limiter = 50 /\ dr.hysteria2 = 50 /\ dr.tuic = 50 /\ dr.anytls = 50

\* ---------------------------------------------------------------- per-identity limiting

KeyLists == {<<UserAB>>, <<UserAB, UserX>>, <<UserX, UserAB>>}

NextKeys ==
    \/ \E list \in KeyLists : Start(NodeA, list, "ok", <<>>)
    \/ Tick
    \/ \E list \in KeyLists : UserMonitorFetch("ok", list)
    \/ UserMonitorFetch("notModified", <<>>)
    \/ UserMonitorRules("notModified", <<>>)
    \/ UserMonitorCollect
    \/ UserMonitorReport(TRUE)
    \/ \E auth \in Keys : Authenticate("ip1", auth)
    \/ \E id \in Keys : Disconnect(Conn("ip1", id))

SpecKeys == Init /\ [][NextKeys]_vars

\* C20 as stated: any two auth keys of the users map whose records carry
\* the same UID have the same rate-limiter object or both none, and every
\* key has the limiter computed from its own record (none when the rate is
\* 0), for every user list.
C20_Original ==
    nodeInfo # NoNode =>
        /\ \A k1, k2 \in DOMAIN users :
               users[k1].UID = users[k2].UID =>
                   /\ (k1 \in DOMAIN rateLimiters) <=> (k2 \in DOMAIN rateLimiters)
                   /\ k1 \in DOMAIN rateLimiters => rateLimiters[k1] = rateLimiters[k2]
        /\ \A k \in DOMAIN users :
               LimiterMatches(k, determineRate(nodeInfo.SpeedLimit, users[k].SpeedLimit))

\* ---------------------------------------------------------------- tag form

\* C21 as stated: in every state after Start the service tag is the one
\* computed from the current nodeInfo and config, also after reloadNode
\* applied a NodeInfo with another Port.
C21_Original == nodeInfo # NoNode => serviceTag = TagOf(nodeInfo)

\* ---------------------------------------------------------------- tag isolation

LtTags == {T1, T2}
LtUser == [UID |-> 1, Email |-> "e", SpeedLimit |-> 0, DeviceLimit |-> 1]
LtUserFast == [LtUser EXCEPT !.SpeedLimit = 2]
LtLists == {<<LtUser>>, <<LtUserFast>>}
LtNodeLimits == {0}
LtIPs == {"ip1", "ip2"}

NextTags ==
    \/ \E tag \in LtTags, n \in LtNodeLimits, list \in LtLists, g \in BOOLEAN :
           AddInboundLimiter(tag, n, list, g)
    \/ \E tag \in LtTags, list \in LtLists : UpdateInboundLimiter(tag, list)
    \/ \E tag \in LtTags : DeleteInboundLimiter(tag)
    \/ \E tag \in LtTags : GetOnlineDevice(tag)
    \/ \E tag \in LtTags, ip \in LtIPs : GetUserBucket(tag, LtUser, ip)
    \/ \E p \in lt.real.pushes : PushIP(p)

SpecTags == Init /\ [][NextTags]_vars

\* C22: whatever calls were made for the tag t1, every call for the tag t2
\* returns what it returns on a limiter that never saw the t1 calls (same
\* error, same reject decision, same bucket, same online-device list), and
\* the InboundInfo of t2 is the same on both, also when the same email, UID
\* and IP are used under both tags.
C22_TagIsolation ==
    /\ lt.out.real = lt.out.shadow
    /\ Restrict(lt.real.InboundInfo, {T2}) = lt.shadow.InboundInfo

\* t1 holds the address ip1 for the user e/1 with the global limit on, and the
\* latest call for t2, where the same user is online from the same address,
\* was rejected.
C22_Witness ==
    /\ T1 \in DOMAIN lt.real.InboundInfo
    /\ T2 \in DOMAIN lt.real.InboundInfo
    /\ lt.real.InboundInfo[T1].GlobalLimit
    /\ UserKey(T1, LtUser) \in DOMAIN lt.real.InboundInfo[T1].UserOnlineIP
    /\ "ip1" \in DOMAIN lt.real.InboundInfo[T1].UserOnlineIP[UserKey(T1, LtUser)]
    /\ UserKey(T2, LtUser) \in DOMAIN lt.real.InboundInfo[T2].UserOnlineIP
    /\ "ip1" \in DOMAIN lt.real.InboundInfo[T2].UserOnlineIP[UserKey(T2, LtUser)]
    /\ UserKey(T1, LtUser) \in DOMAIN lt.real.redis
    /\ lt.out.real.Reject

\* ---------------------------------------------------------------- removed users

\* the auth keys a user list gives
ListKeys(list) == UNION {{k \in {list[i].UUID, list[i].Passwd} : k # ""} : i \in DOMAIN list}

RemovedLists == {<<UserA0, UserB>>, <<UserB>>}
RemovedIPs == {"ip1"}
\* the connection whose requests are followed
RemovedRequester == Conn("ip1", "a")

NextRemoved ==
    \/ \E list \in RemovedLists : Start(NodeA, list, "ok", <<>>)
    \/ \E ip \in RemovedIPs, auth \in Keys : Authenticate(ip, auth)
    \/ TCPRequest(RemovedRequester, "ok")
    \/ UDPRequest(RemovedRequester, "")
    \/ RequestOnline
    \/ auditRequest
    \/ \E c \in conns : LogTraffic(c, 1, 0)
    \/ \E list \in RemovedLists : UserMonitorFetch("ok", list)
    \/ UserMonitorRules("notModified", <<>>)
    \/ UserMonitorCollect
    \/ UserMonitorReport(TRUE)
    \/ Tick

SpecRemoved == Init /\ [][NextRemoved]_vars

\* C23: a syncUsers with a list that omits a user leaves none of that user's
\* auth keys in the users map, and while a key is not in the users map every
\* Authenticate with it is rejected and changes no online set, every
\* LogTraffic for it leaves all traffic counters unchanged, and a TCPRequest
\* or UDPRequest made for it adds no IP to onlineIPs or ipLastActive.
C23_RemovedNotServed ==
    /\ [][\A list \in RemovedLists :
             (UserMonitorFetch("ok", list) /\ ~BootDelay) =>
                 \A k \in Keys \ ListKeys(list) :
                     k \notin DOMAIN users' \cup DOMAIN onlineIPs' \cup DOMAIN ipLastActive']_vars
    /\ [](\A ip \in IPs, k \in Keys : k \notin DOMAIN users => ~AuthenticateOk(ip, k))
    /\ [][\A ip \in IPs, k \in Keys :
             (Authenticate(ip, k) /\ k \notin DOMAIN users) =>
                 UNCHANGED <<conns, onlineIPs, ipLastActive>>]_vars
    /\ [][\A c \in conns :
             (LogTraffic(c, 1, 0) /\ c.id \notin DOMAIN users) => traffic' = traffic]_vars
    /\ [][\A c \in conns, dest \in {"ok", ""} :
             (EventRequest(c, dest) /\ c.id \notin DOMAIN users) => ~req'.ok]_vars
    /\ [][(RequestOnline /\ ~req.ok) => UNCHANGED <<onlineIPs, ipLastActive>>]_vars

\* user a was removed by a syncUsers while a connection of a stayed open, and
\* a LogTraffic call for it has passed bytes that no counter holds
C23_Witness ==
    /\ nodeInfo # NoNode
    /\ "a" \notin DOMAIN users
    /\ Conn("ip1", "a") \in conns
    /\ phase["a"] = "none"
    /\ observed > counted["a"].Upload + counted["a"].Download

\* ---------------------------------------------------------------- Close twice

NextClose ==
    \/ \E r \in ForeignRules : ForeignRule(r)
    \/ \E n \in {NodeA, NodeB}, list \in {<<>>, <<UserA0>>} : Start(n, list, "ok", <<>>)
    \/ Tick
    \/ CloseCall
    \/ CloseLock
    \/ CloseRules
    \/ CloseTasks
    \/ CloseServer

SpecClose == Init /\ [][NextClose]_vars

\* C24 as stated: once a Close has closed the embedded server, a further call
\* of Close removes no firewall rule, stops no task, does not close the
\* server again and leaves the service state unchanged.
C24_Original ==
    [][(server \in {"closed", "closedTwice"}) =>
          UNCHANGED <<server, tasks, portHopRules, natTable, nodeInfo, svcVars>>]_vars

\* ---------------------------------------------------------------- rule refresh

RuleLists == {<<>>, AuditRules, <<[ID |-> 2, Pattern |-> "ok"]>>}
RuleAnswers == {"ok", "notModified", "error"}

NextRules ==
    \/ \E list \in RuleLists : Start(NodeA, <<UserA0>>, "ok", list)
    \/ Tick
    \/ UserMonitorFetch("notModified", <<>>)
    \/ \E answer \in RuleAnswers, list \in RuleLists : UserMonitorRules(answer, list)
    \/ UserMonitorCollect
    \/ UserMonitorReport(TRUE)
    \/ \E ip \in AuditIPs : Authenticate(ip, "a")
    \/ \E c \in conns : LogTraffic(c, 1, 0)

SpecRules == Init /\ [][NextRules]_vars

\* C25 as stated: a userMonitor cycle in which GetNodeRule succeeds with the
\* list R leaves exactly R as the active rules of the tag, for every R, the
\* empty list included; when GetNodeRule fails or answers "rules not
\* modified" the active rules are unchanged.
C25_Original ==
    [][\A answer \in RuleAnswers, list \in RuleLists :
          (UserMonitorRules(answer, list) /\ ~config.DisableGetRule) =>
              rules' = IF answer = "ok" THEN list ELSE rules]_vars

\* ---------------------------------------------------------------- panel churn

TuicNodes == {NodeU, NodeUC, NodeU7, NodeU0}
TuicLists == {<<>>, <<UserA0>>}

NextTuic ==
    \/ \E n \in TuicNodes, list \in TuicLists : TuicStart(n, list, "ok", AuditRules)
    \/ Tick
    \/ \E n \in TuicNodes : TuicNodeMonitorFetch("ok", n)
    \/ TuicNodeMonitorFetch("notModified", NoNode)
    \/ TuicNodeMonitorFetch("error", NoNode)
    \/ \E ok \in BOOLEAN : TuicReload(ok)

SpecTuic == Init /\ [][NextTuic]_vars

\* C26 as stated: when the panel returns at a poll the NodeInfo it returned at
\* the previous poll or at Start, nodeMonitor does not call reloadNode (which
\* closes and rebuilds the embedded server), for every NodeInfo, one without
\* TuicConfig included.
C26_Original ==
    [][\A n \in TuicNodes :
          (TuicNodeMonitorFetch("ok", n) /\ n = polled) => pc'["node"] = "idle"]_vars

\* ---------------------------------------------------------------- certificate reload

\* C27 as stated: a reload triggered by certMonitor never replaces the node
\* configuration: when it runs concurrently with a nodeMonitor reload that
\* applies a new NodeInfo, nodeInfo and the port-hop rules stay those of the
\* new NodeInfo once both have completed (Close not called).
C27_Original ==
    [][(ReloadSwap("cert") /\ closePc = "idle") =>
          (nodeInfo' = nodeInfo /\ portHopRules' = portHopRules)]_vars

\* ---------------------------------------------------------------- blocked flags

\* C28 as stated: every entry of blockedIDs that exists when collectUsage or
\* syncUsers runs is cleared by that call.
C28_Original ==
    [][/\ UserMonitorCollect => blockedIDs' = {}
       /\ \A list \in AuditLists :
              (UserMonitorFetch("ok", list) /\ ~BootDelay) => blockedIDs' = {}]_vars

\* ---------------------------------------------------------------- online state

\* C29 as stated: in every reachable state every auth key that has an entry
\* in onlineIPs or ipLastActive is a key of the users map, and every key of
\* the users map has a traffic counter.
C29_Original ==
    /\ DOMAIN onlineIPs \cup DOMAIN ipLastActive \subseteq DOMAIN users
    /\ DOMAIN users \subseteq DOMAIN traffic

\* ---------------------------------------------------------------- collectUsage

\* the auth keys whose traffic counter is not zero
NonZeroKeys == {k \in DOMAIN traffic : traffic[k] # ZeroTraffic}

\* C30 as stated: collectUsage returns one traffic entry for each non-zero
\* traffic counter, carrying the counter's Upload and Download and the owning
\* user's UID and Email, a snapshot with the same values per auth key, and
\* one online entry {UID, IP} for each (auth key, IP) pair of onlineIPs;
\* afterwards every reported counter is zero and onlineIPs and ipLastActive
\* are empty.
C30_Original ==
    [][UserMonitorCollect =>
          /\ DOMAIN um'.uts = NonZeroKeys
          /\ NonZeroKeys \cup DOMAIN onlineIPs \subseteq DOMAIN users
          /\ \A k \in NonZeroKeys :
                 um'.uts[k] = [UID |-> users[k].UID, Email |-> users[k].Email,
                               Upload |-> traffic[k].Upload,
                               Download |-> traffic[k].Download]
          /\ um'.snapshot = [k \in NonZeroKeys |-> traffic[k]]
          /\ um'.online = UNION {{[UID |-> users[k].UID, IP |-> ip] : ip \in onlineIPs[k]} :
                                    k \in DOMAIN onlineIPs}
          /\ \A k \in NonZeroKeys : traffic'[k] = ZeroTraffic
          /\ onlineIPs' = EmptyMap
          /\ ipLastActive' = EmptyMap]_vars

\* ---------------------------------------------------------------- panel failures

PanelLists == {<<UserA0>>, <<UserA0, UserB>>}

NextPanel ==
    \/ \E list \in PanelLists : Start(NodeA, list, "ok", <<>>)
    \/ Tick
    \/ \E auth \in Keys : Authenticate("ip1", auth)
    \/ \E c \in conns, b \in TxRx : LogTraffic(c, b[1], b[2])
    \/ UserMonitorFetch("notModified", <<>>)
    \/ UserMonitorFetch("error", <<>>)
    \/ UserMonitorRules("notModified", <<>>)
    \/ UserMonitorCollect
    \/ \E ok \in BOOLEAN : UserMonitorReport(ok)

SpecPanel == Init /\ [][NextPanel]_vars

\* the order of the steps of one userMonitor cycle
CycleSteps ==
    {<<"idle", "rules">>, <<"rules", "collect">>, <<"collect", "report">>, <<"report", "idle">>}

\* C31: a user-list fetch that fails with another error than "users not
\* modified" ends the cycle with users, rate limiters, traffic counters and
\* online sets unchanged; on "users not modified" users and rate limiters are
\* unchanged and the cycle goes on through the rule check to collectUsage
\* and the reports.
C31_PanelFailure ==
    /\ [][UserMonitorFetch("error", <<>>) =>
             UNCHANGED <<um, users, rateLimiters, limiters, traffic, onlineIPs, ipLastActive>>]_vars
    /\ [][(UserMonitorFetch("notModified", <<>>) /\ ~BootDelay) =>
             (um'.pc = "rules" /\ UNCHANGED <<users, rateLimiters, limiters>>)]_vars
    /\ [][um'.pc # um.pc => <<um.pc, um'.pc>> \in CycleSteps]_vars
    /\ [](um.pc = "rules" => ENABLED UserMonitorRules("notModified", <<>>))
    /\ [](um.pc = "collect" => ENABLED UserMonitorCollect)
    /\ [](um.pc = "report" => ENABLED UserMonitorReport(TRUE))

\* a cycle whose fetch answered "users not modified" has collected the
\* traffic of user a and is about to report it
C31_Witness ==
    /\ um.pc = "report"
    /\ "a" \in DOMAIN um.uts
    /\ "a" \in DOMAIN users
    /\ "a" \in DOMAIN rateLimiters \/ users["a"].SpeedLimit = 0

\* ---------------------------------------------------------------- bucket sharing
SharedLimits == {0, 1, 2}

NextShared ==
    \/ \E c \in SharedLinks : SharedGetUserBucket(c)
    \/ SharedGetOnlineDevice
    \/ \E speedLimit \in SharedLimits : SharedUpdateInboundLimiter(speedLimit)
    \/ \E c \in SharedLinks : SharedLinkClose(c)

SpecShared == Init /\ [][NextShared]_vars

\* C32: at any time all rate-limited active links of the user are wrapped
\* with the same token bucket, under any interleaving of GetUserBucket,
\* GetOnlineDevice and UpdateInboundLimiter.
C32_Original ==
    \A c1, c2 \in SharedLinks :
        shared.links[c1] > 0 /\ shared.links[c2] > 0 => shared.links[c1] = shared.links[c2]

\* ---------------------------------------------------------------- online report
\* the IPs of the submap m that no GetUserBucket call in progress may still remove
Admitted(m) ==
    {ip \in lim.ipMaps[m] :
        ~\E p \in GubProcs : /\ lim.gub[p].pc \in {"inserted", "ranging", "counted"}
                             /\ lim.gub[p].m = m
                             /\ lim.gub[p].ip = ip}

\* C33: every IP GetUserBucket admitted is returned, with the user's UID, by
\* the GetOnlineDevice call that ends its admission cycle, in every
\* interleaving of GetUserBucket with a running GetOnlineDevice: when
\* GetOnlineDevice deletes the user's entry, its result holds every admitted
\* IP of the submap it unregisters.
C33_Original ==
    [][(lim.god.pc = "ranged" /\ lim'.god.pc = "idle") =>
          \A ip \in Admitted(lim.god.m) : [UID |-> LimUser.UID, IP |-> ip] \in lim.god.out]_vars

\* ---------------------------------------------------------------- rejected calls
\* C34: whenever GetUserBucket returns reject=true, from the local or from
\* the global device check, the tag's local online-IP map has the same
\* content as before the call.
C34_Original ==
    [][(lt'.out.real.Reject /\ T2 \in DOMAIN lt.real.InboundInfo) =>
          lt'.real.InboundInfo[T2].UserOnlineIP = lt.real.InboundInfo[T2].UserOnlineIP]_vars

\* ---------------------------------------------------------------- global device check
GlKey == <<T1, "e", 1>>
GlIPs == {"ip1", "ip2", "ip3"}
GlMaps == {[ip \in S |-> 1] : S \in SUBSET GlIPs}
GlAnswers == {[err |-> "none", v |-> m] : m \in GlMaps} \cup
             {[err |-> e, v |-> EmptyMap] : e \in {"NotFound", "other"}}
GlLimits == 0..3

NextGlobal ==
    \E got \in GlAnswers, ip \in GlIPs, deviceLimit \in GlLimits :
        GlobalLimitCall(got, GlKey, 1, ip, deviceLimit)

SpecGlobal == Init /\ [][NextGlobal]_vars

GlPush(ipMap) == {[uniqueKey |-> GlKey, ipMap |-> ipMap]}

\* C35: globalLimit rejects exactly when the cache read succeeds,
\* DeviceLimit > 0 and the cached IP set has more than DeviceLimit members;
\* on a cache miss it publishes {ip: uid} and allows; on any other cache
\* error it allows without publishing; on allow with an IP that is not in
\* the cached set it publishes the set with that IP added, and with an IP
\* already in the set it publishes nothing.
C35_GlobalCheck ==
    gl.called =>
        LET cached == DOMAIN gl.got.v
        IN /\ gl.out.reject <=> /\ gl.got.err = "none"
                                /\ gl.deviceLimit > 0
                                /\ Cardinality(cached) > gl.deviceLimit
           /\ gl.got.err = "NotFound" => gl.out.go = GlPush(Put(EmptyMap, gl.ip, gl.uid))
           /\ gl.got.err = "other" => gl.out.go = {}
           /\ gl.out.reject => gl.out.go = {}
           /\ gl.got.err = "none" /\ ~gl.out.reject /\ gl.ip \notin cached =>
                  gl.out.go = GlPush(Put(gl.got.v, gl.ip, gl.uid))
           /\ gl.got.err = "none" /\ ~gl.out.reject /\ gl.ip \in cached => gl.out.go = {}

C35_Witness ==
    /\ gl.called /\ gl.got.err = "none" /\ ~gl.out.reject
    /\ Cardinality(DOMAIN gl.got.v) = gl.deviceLimit
    /\ gl.deviceLimit > 0
    /\ gl.ip \notin DOMAIN gl.got.v

\* ---------------------------------------------------------------- dispatch policy
PolicyEmails == {<<>>, UserKey(T2, LtUser)}
PolicyDests == {"", "d"}

NextPolicy ==
    \/ \E list \in LtLists : AddInboundLimiter(T2, 0, list, FALSE)
    \/ \E list \in LtLists : UpdateInboundLimiter(T2, list)
    \/ GetOnlineDevice(T2)
    \/ \E hasUser \in BOOLEAN, email \in PolicyEmails, srcIP \in LtIPs, destStr \in PolicyDests,
          hit \in BOOLEAN :
           DispatchHere(T2, hasUser, email, srcIP, destStr, hit)

SpecPolicy == Init /\ [][NextPolicy]_vars

\* C36: Dispatch hands the link to the underlying handler if and only if the
\* audit check did not match and GetUserBucket did not reject; a Dispatch
\* closed by audit leaves the limiter as it was, its online-IP map included;
\* when GetUserBucket returns a bucket, the link handed over has both its
\* reader and its writer wrapped with that bucket, and a link without a
\* bucket is handed over unwrapped.
C36_DispatchOrder ==
    /\ [](link.called => (link.handed <=> ~link.detect /\ ~link.reject))
    /\ [][(link'.n # link.n /\ link'.detect) => lt'.real = lt.real]_vars
    /\ [](link.called =>
             /\ link.bucket # 0 =>
                   /\ link.handed
                   /\ link.Reader.limiter = link.bucket
                   /\ link.Writer.limiter = link.bucket
             /\ link.bucket = 0 => link.Reader = PlainLink.Reader /\ link.Writer = PlainLink.Writer)

C36_Witness ==
    /\ link.handed
    /\ link.bucket = 2
    /\ link.Writer.limiter = 2
    /\ \E k \in DOMAIN lt.real.InboundInfo[T2].UserOnlineIP :
           Cardinality(DOMAIN lt.real.InboundInfo[T2].UserOnlineIP[k]) = 1

\* ---------------------------------------------------------------- port-hop rules and reload
\* the tracked rules are those of the current nodeInfo, each to its Port
RulesFollow ==
    /\ portHopRules = buildPortHopRulesFromNode(nodeInfo)
    /\ \A i \in 1..Len(portHopRules) : portHopRules[i].ToPort = nodeInfo.Port

\* reloadNode starts the new embedded server
ServerStarts == nodeInfo # NoNode /\ server = "nil" /\ server' = "running"

NextWait ==
    \/ mu = "free" /\ Start(NodeA, <<UserS, UserB>>, "ok", <<>>)
    \/ Tick
    \/ mu = "free" /\ Authenticate("ip1", "a")
    \/ \E list \in SpeedLists : mu = "free" /\ UserMonitorFetch("ok", list)
    \/ UserMonitorRules("notModified", <<>>)
    \/ mu = "free" /\ UserMonitorCollect
    \/ mu = "free" /\ UserMonitorReport(TRUE)
    \/ \E t \in LogThreads, id \in Keys : LogTrafficLock(t, id, 1, 0)
    \/ \E t \in LogThreads : LogTrafficBody(t)
    \/ \E t \in LogThreads : LogTrafficWaitN(t)

SpecWait == Init /\ [][NextWait]_vars

\* C38: no thread holds the service mutex while it is in WaitN on a rate
\* limiter: the mutex is held only by a call between its Lock and its
\* Unlock, so while every LogTraffic call in progress is waiting the mutex
\* is free for Authenticate, syncUsers, collectUsage and the traffic
\* callbacks of other connections.
C38_NoWaitUnderLock ==
    /\ \A t \in LogThreads : tl[t].pc = "WaitN" => mu # t
    /\ mu # "free" => tl[mu].pc = "locked"
    /\ (\A t \in LogThreads : tl[t].pc # "locked") => mu = "free"

C38_Witness ==
    /\ tl["w1"].pc = "WaitN"
    /\ tl["w1"].limiter # 0
    /\ mu = "w2"
    /\ tl["w2"].id = tl["w1"].id

\* ---------------------------------------------------------------- syncUsers twice
IdemLists == {<<UserA0>>, <<UserAB>>, <<UserAB, UserX>>, <<UserAB, UserP>>}

NextIdem ==
    \/ Start(NodeA, <<UserA0>>, "ok", <<>>)
    \/ \E list \in IdemLists : CallSyncUsers(list)
    \/ \E auth \in Keys : Authenticate("ip1", auth)
    \/ \E c \in conns, b \in TxRx : LogTraffic(c, b[1], b[2])

SpecIdem == Init /\ [][NextIdem]_vars

\* C39: a syncUsers(L) call that follows a syncUsers(L) call with the same
\* list leaves the users map as it was, every auth key with the identical
\* rate-limiter object at the same rate and burst, and the traffic counters,
\* onlineIPs and ipLastActive unchanged.
C39_Original ==
    [][(synced'.n # synced.n /\ synced.called /\ synced'.list = synced.list) =>
          /\ users' = users
          /\ rateLimiters' = rateLimiters
          /\ \A k \in DOMAIN rateLimiters :
                 limiters'[rateLimiters'[k]] = limiters[rateLimiters[k]]
          /\ traffic' = traffic
          /\ onlineIPs' = onlineIPs
          /\ ipLastActive' = ipLastActive]_vars

\* ---------------------------------------------------------------- UpdateInboundLimiter
LtOther == [UID |-> 2, Email |-> "f", SpeedLimit |-> 1, DeviceLimit |-> 0]
LtOtherFast == [LtOther EXCEPT !.SpeedLimit = 2]
UpdLists == {<<LtUser>>, <<LtUserFast>>, <<LtOtherFast>>, <<LtUser, LtOtherFast>>,
             <<LtUserFast, LtOther>>}
UpdNodeLimits == {0, 1}
UpdUsers == {LtUser, LtOther}

NextUpdate ==
    \/ \E n \in UpdNodeLimits : AddInboundLimiter(T2, n, <<LtUserFast, LtOther>>, FALSE)
    \/ \E list \in UpdLists : UpdateInboundLimiter(T2, list)
    \/ DeleteInboundLimiter(T2)
    \/ GetOnlineDevice(T2)
    \/ \E u \in UpdUsers : GetUserBucket(T2, u, "ip1")

SpecUpdate == Init /\ [][NextUpdate]_vars

ListUsers(list) == {list[i] : i \in 1..Len(list)}

\* what UpdateInboundLimiter(T2, list) has to achieve from the InboundInfo
\* old to the InboundInfo new
Updated(old, new, list) ==
    LET keys == {UserKey(T2, u) : u \in ListUsers(list)}
    IN /\ \A u \in ListUsers(list) :
              LET k == UserKey(T2, u)
                  limit == limiterDetermineRate(old.NodeSpeedLimit, u.SpeedLimit)
              IN /\ k \in DOMAIN new.UserInfo
                 /\ new.UserInfo[k] = [UID |-> u.UID, SpeedLimit |-> u.SpeedLimit,
                                       DeviceLimit |-> u.DeviceLimit]
                 /\ k \in DOMAIN new.BucketHub <=> (k \in DOMAIN old.BucketHub /\ limit > 0)
                 /\ k \in DOMAIN new.BucketHub => new.BucketHub[k] = limit
       /\ \A k \in (DOMAIN old.UserInfo \cup DOMAIN new.UserInfo) \ keys :
              /\ k \in DOMAIN old.UserInfo /\ k \in DOMAIN new.UserInfo
              /\ new.UserInfo[k] = old.UserInfo[k]
       /\ \A k \in (DOMAIN old.BucketHub \cup DOMAIN new.BucketHub) \ keys :
              /\ k \in DOMAIN old.BucketHub /\ k \in DOMAIN new.BucketHub
              /\ new.BucketHub[k] = old.BucketHub[k]

\* C40: UpdateInboundLimiter(tag, L) for an existing tag leaves every user
\* of L with the stored UID, SpeedLimit and DeviceLimit of L, every bucket
\* that existed for a user of L with the limit determineRate(nodeLimit,
\* userLimit), or removed from the hub when that value is 0, and the info
\* and buckets of users not in L unchanged; for an unknown tag it returns an
\* error and changes nothing.
C40_UpdateInboundLimiter ==
    [][\A list \in UpdLists :
          UpdateInboundLimiter(T2, list) =>
              IF T2 \in DOMAIN lt.real.InboundInfo
              THEN /\ T2 \in DOMAIN lt'.real.InboundInfo
                   /\ ~lt'.out.real.err
                   /\ Updated(lt.real.InboundInfo[T2], lt'.real.InboundInfo[T2], list)
              ELSE lt'.real = lt.real /\ lt'.out.real.err]_vars

C40_Witness ==
    /\ lt.out.real = NoRes
    /\ T2 \in DOMAIN lt.real.InboundInfo
    /\ lt.real.InboundInfo[T2].UserInfo[UserKey(T2, LtUser)].SpeedLimit = 0
    /\ UserKey(T2, LtUser) \in DOMAIN lt.real.InboundInfo[T2].UserOnlineIP
    /\ UserKey(T2, LtUser) \notin DOMAIN lt.real.InboundInfo[T2].BucketHub
    /\ UserKey(T2, LtOther) \in DOMAIN lt.real.InboundInfo[T2].BucketHub
    /\ lt.real.InboundInfo[T2].NodeSpeedLimit = 0
    /\ lt.real.InboundInfo[T2].BucketHub[UserKey(T2, LtOther)] = 2

====
